---------------------------- MODULE Spec2Model ----------------------------
(***************************************************************************)
(* Model of the virtual ALSA PCM test driver (src/pcmtest.c).              *)
(*                                                                         *)
(* A substream slot s holds one open/close lifecycle at a time.  Its       *)
(* iterator (struct pcmtst_buf_iter) is iter[s]; the framework's runtime   *)
(* (struct snd_pcm_runtime) is runtime[s].  The timer callback             *)
(* (timer_timeout) is the action Tick; the PCM callbacks are the actions   *)
(* Open, HwParams, Prepare, Trigger, Ioctl and Close; the debugfs file     *)
(* operations of fill_pattern are PatternWrite and PatternRead.            *)
(*                                                                         *)
(* Sizes are scaled: the framework's inputs (rate, buffer size) are drawn  *)
(* from small sets, so that a tick handles a few bytes instead of          *)
(* thousands.  The driver's own constants keep their values.               *)
(***************************************************************************)
EXTENDS Integers, Sequences, FiniteSets, TLC

(* ------------------------- program constants -------------------------- *)
TIMER_PER_SEC == 5
MAX_CHANNELS_NUM == 4
MAX_PATTERN_LEN == 4096
FILL_MODE_RAND == 0
FILL_MODE_PAT == 1

EINVAL == 22
EBUSY == 16
ENOMEM == 12
EFAULT == 14

PLAYBACK == "SNDRV_PCM_STREAM_PLAYBACK"
CAPTURE == "SNDRV_PCM_STREAM_CAPTURE"
RW_INTERLEAVED == "SNDRV_PCM_ACCESS_RW_INTERLEAVED"
RW_NONINTERLEAVED == "SNDRV_PCM_ACCESS_RW_NONINTERLEAVED"
MMAP_NONINTERLEAVED == "SNDRV_PCM_ACCESS_MMAP_NONINTERLEAVED"

(* ------------------------------ bounds -------------------------------- *)
\* rate is TIMER_PER_SEC * k for k in 1..MaxRateMul (the driver's rates are
\* multiples of 5 as well; the scale makes b_rw a few bytes)
MaxRateMul == 2
\* the buffer holds 1..MaxBufFrames frames
MaxBufFrames == 2
\* a session runs at most MaxTicks timer callbacks with b_rw > 0
MaxTicks == 4
\* and at most MaxIdleTicks timer callbacks with b_rw = 0
MaxIdleTicks == 1
\* the writer of a playback session puts at most MaxWriteFrames frames
MaxWriteFrames == 4
\* generated patterns <<1, .., n>> have n in 1..MaxPatLen
MaxPatLen == 3

Substreams == {0, 1}

VARIABLES
    iter,               \* s -> struct pcmtst_buf_iter (runtime->private_data)
    isopen,             \* s -> the iterator is allocated (between open and close)
    stream,             \* s -> substream->stream
    runtime,            \* s -> struct snd_pcm_runtime (the fields the driver reads)
    timer,              \* s -> timer_instance is armed
    fault,              \* the kernel trapped (divide error in the timer callback)
    playback_capture_test,
    ioctl_reset_test,
    fill_mode,
    fill_pattern,       \* the bytes of fill_pattern[] up to the last non-zero-extent
    pattern_len,
    inject_hwpars_err,
    inject_prepare_err,
    inject_trigger_err,
    ret,                \* return value of the last callback / file operation
    f_pos,              \* *off of the open fill_pattern file
    usr_buf,            \* the user buffer of the last pattern read
    ph,                 \* history (ghost) of the pattern file, see ZeroPh
    g,                  \* s -> history (ghost) of the session, see ZeroGhost
    alsav,              \* the sequence-checking variant: its struct alsav
    av,                 \* the variant's runtime, timer, verdict byte and
                        \* history, see ZeroAv
    tk                  \* s -> the callback of timer_instance and the close
                        \* of the substream in progress, see ZeroTk

vars == <<iter, isopen, stream, runtime, timer, fault, playback_capture_test,
          ioctl_reset_test, fill_mode, fill_pattern, pattern_len,
          inject_hwpars_err, inject_prepare_err, inject_trigger_err, ret,
          f_pos, usr_buf, ph, g, alsav, av, tk>>

drvvars == <<iter, isopen, stream, runtime, timer, fault, playback_capture_test,
             ioctl_reset_test, g>>
patvars == <<fill_pattern, pattern_len, f_pos, usr_buf, ph>>
cfgvars == <<fill_mode, inject_hwpars_err, inject_prepare_err, inject_trigger_err>>
seqvars == <<alsav, av>>

(* ------------------------------ helpers ------------------------------- *)
Min(a, b) == IF a < b THEN a ELSE b
Max(a, b) == IF a > b THEN a ELSE b

\* C's a / b and a % b on unsigned operands.  With b = 0 the behaviour is
\* undefined: the callers record it (div0) and Tick chooses between the
\* outcomes a build produces; the value used when execution continues is the
\* one of a divide instruction that does not trap (quotient 0, remainder a).
CDiv(a, b) == IF b = 0 THEN 0 ELSE a \div b
CMod(a, b) == IF b = 0 THEN a ELSE a % b

\* a - b on size_t operands: a negative difference wraps to a value beyond
\* every count of the model
SizeSub(a, b) == IF a >= b THEN a - b ELSE 2^30 + (a - b)

\* a zeroed buffer of n bytes, offsets 0 .. n - 1
ZeroArea(n) == [o \in 0 .. n - 1 |-> 0]

\* the timer of a substream and its close, between the steps of the
\* callbacks:
\*   run      timer_timeout is executing on a CPU
\*   shut     timer_shutdown_sync has shut the timer down: mod_timer no longer
\*            arms it
\*   closing  snd_pcmtst_pcm_close has been entered and has not returned
\*   waited   (history) a callback finished while the last close stood in
\*            timer_shutdown_sync
\*   uaf      the iterator was freed with a callback still executing, which
\*            accesses it after the kfree
ZeroTk ==
    [run |-> FALSE, shut |-> FALSE, closing |-> FALSE, waited |-> FALSE,
     uaf |-> FALSE]

\* kzalloc'ed struct pcmtst_buf_iter
ZeroIter ==
    [buf_pos |-> 0, period_pos |-> 0, b_rw |-> 0, sample_bytes |-> 0,
     is_buf_corrupted |-> FALSE, period_bytes |-> 0, interleaved |-> FALSE,
     total_bytes |-> 0, chan_block |-> 0]

\* the runtime of a freshly opened substream: no hw_params yet, no buffer
ZeroRuntime ==
    [dma_bytes |-> 0, dma_area |-> ZeroArea(0), channels |-> 0, rate |-> 0,
     sample_bits |-> 0, period_size |-> 0, access |-> RW_INTERLEAVED]

\* history of a session, no part of the driver's state:
\*   adv      sum of the 'by' arguments of inc_buf_pos since open
\*   elapsed  number of snd_pcm_period_elapsed calls since open
\*   ticks    number of timer callbacks since open
\*   idle     those of them that ran with b_rw = 0
\*   written  bytes the writer has put into the buffer since hw_params
\*   frames   frames the writer has put into the buffer since open
\*   dev      stream index of the writer's deviating byte, -1 if none
\*   devval   the deviating byte
\*   underrun a playback tick started on a block the writer had not
\*            completely written
\*   overtook such a tick whose block reaches beyond the first buffer lap
\*   cfg      what the last successful hw_params installed
\*   oob      a tick accessed dma_area outside [0, dma_bytes)
\*   nhw      number of successful hw_params
\*   ioctls   the ioctl commands the session has received
\*   trig     a trigger of the session has returned 0
\*   post     how many of PostOps the session has executed, in their order,
\*            each with is_buf_corrupted already set
\*   phase    "none" before the first open, "open", "closed" after close
\*   total    total_bytes when the session was closed
\* Close keeps dev, devval, underrun, overtook, oob, post and cfg of the session
\* until the next open and clears the rest.
ZeroGhost ==
    [adv |-> 0, elapsed |-> 0, ticks |-> 0, idle |-> 0, written |-> 0,
     frames |-> 0, dev |-> -1, devval |-> 0, underrun |-> FALSE, overtook |-> FALSE, oob |-> FALSE,
     nhw |-> 0, ioctls |-> {}, trig |-> FALSE, post |-> 0, phase |-> "none", total |-> 0,
     cfg |-> [channels |-> 0, sample_bits |-> 0, access |-> RW_INTERLEAVED,
              dma_bytes |-> 0]]

\* the operations whose effect on a corrupted session is recorded in post
PostOps == <<"hw_params", "tick", "trigger", "prepare", "reset">>

\* post of session s after op
Post(s, op) ==
    IF iter[s].is_buf_corrupted /\ g[s].post < Len(PostOps)
          /\ PostOps[g[s].post + 1] = op
    THEN g[s].post + 1 ELSE g[s].post

\* kzalloc'ed struct alsav of the sequence-checking variant; substream is
\* TRUE for a non-NULL pointer
ZeroAlsav ==
    [substream |-> FALSE, buf_pos |-> 0, period_pos |-> 0, b_read |-> 0,
     wrong_zero |-> FALSE, is_buf_corrupted |-> FALSE, period_bytes |-> 0]

\* the rest of the variant and the history of its session:
\*   stream, dma_bytes, dma_area, rate, sample_bits, period_size
\*            the substream and its runtime (hw: hw_params has installed it)
\*   timer    the module's timer is armed
\*   playback_capture_test   the variant's verdict byte
\*   fault    the kernel died in a timer callback
\*   written  bytes the writer has put into the buffer since open
\*   read     sum of b_read over the ticks since open
\*   ticks    number of timer callbacks since open, idle those with b_read = 0
\*   starved  a tick of the session read a byte outside the buffer or at an
\*            offset the writer had not written yet
\*   phase    "none" before the first open, "open", "closed" after close
\* Close keeps starved and read until the next open and clears the rest of
\* the history.
ZeroAv ==
    [stream |-> PLAYBACK, dma_bytes |-> 0, dma_area |-> ZeroArea(0), rate |-> 0,
     sample_bits |-> 0, period_size |-> 0, hw |-> FALSE, timer |-> FALSE,
     playback_capture_test |-> 0, fault |-> FALSE, written |-> 0, read |-> 0,
     ticks |-> 0, idle |-> 0, starved |-> FALSE, phase |-> "none"]

\* fill_pattern[i] of the static, zero-initialised array
PatAt(i) == IF i < Len(fill_pattern) THEN fill_pattern[i + 1] ELSE 0

\* frames_to_bytes(runtime, n): n * frame_bits / 8
frames_to_bytes(rt, n) == (n * rt.channels * rt.sample_bits) \div 8


(* --------------------- the buffer iterator (ticks) -------------------- *)
\* The C functions below mutate *v_iter and runtime->dma_area.  Here they
\* map a record m to the record after the call:
\*   m.it    *v_iter
\*   m.area  runtime->dma_area, a function on 0 .. dma_bytes - 1
\*   m.div0  a division or remainder by zero was executed
\*   m.oob   dma_area was accessed outside its bounds
\*   m.adv   sum of the 'by' arguments of inc_buf_pos
\*   m.rd    number of bytes of dma_area the call has read and compared

DivBy(m, d) == IF d = 0 THEN [m EXCEPT !.div0 = TRUE] ELSE m

\* runtime->dma_area[o]
RdArea(m, o) == IF o \in DOMAIN m.area THEN m.area[o] ELSE 0
Touch(m, o) ==
    IF o \in DOMAIN m.area THEN [m EXCEPT !.rd = @ + 1]
    ELSE [m EXCEPT !.rd = @ + 1, !.oob = TRUE]
WrArea(m, o, b) ==
    IF o \in DOMAIN m.area THEN [m EXCEPT !.area[o] = b]
    ELSE [m EXCEPT !.oob = TRUE]

\* get_random_bytes(runtime->dma_area + start, n), every byte of the call r
WrRange(m, start, n, r) ==
    [m EXCEPT !.area = [o \in DOMAIN m.area |->
                            IF start <= o /\ o < start + n THEN r ELSE m.area[o]],
              !.oob = m.oob \/ (n > 0 /\ start + n > Cardinality(DOMAIN m.area))]

\* mutant: total_bytes wraps with buf_pos
inc_buf_pos_wrap_total(m, by, bytes) ==
    DivBy([m EXCEPT !.it.total_bytes = CMod(@ + by, bytes),
                    !.it.buf_pos = CMod(@ + by, bytes),
                    !.adv = @ + by], bytes)

\* mutant: buf_pos is not reduced modulo the buffer length
inc_buf_pos_nowrap(m, by, bytes) ==
    [m EXCEPT !.it.total_bytes = @ + by, !.it.buf_pos = @ + by, !.adv = @ + by]

inc_buf_pos(m, by, bytes) ==
    DivBy([m EXCEPT !.it.total_bytes = @ + by,
                    !.it.buf_pos = CMod(@ + by, bytes),
                    !.adv = @ + by], bytes)

\* mutant: the position is not divided among the channels
buf_pos_nint_nodiv(m, channels, chan_num) ==
    m.it.buf_pos + m.it.chan_block * chan_num

buf_pos_nint(m, channels, chan_num) ==
    CDiv(m.it.buf_pos, channels) + m.it.chan_block * chan_num

\* mutant: the position in the sample is dropped
ch_pos_int_nosample(b_total, channels, b_sample) == CDiv(b_total, channels)

ch_pos_int(b_total, channels, b_sample) ==
    CDiv(CDiv(b_total, channels), b_sample) * b_sample + CMod(b_total, b_sample)

\* mutant: a zero byte is compared like every other byte
no_more_data_never(current_byte) == FALSE

\* if (!current_byte) break;
no_more_data(current_byte) == current_byte = 0

\* the for loop of check_buf_block_i from index i on: <<m, i>> at its exit
RECURSIVE check_loop_i(_, _, _)
check_loop_i(m, rt, i) ==
    IF ~(i < m.it.b_rw) THEN <<m, i>>
    ELSE LET current_byte == RdArea(m, m.it.buf_pos)
             m0 == Touch(m, m.it.buf_pos)
             m1 == DivBy(DivBy(DivBy(m0, rt.channels), m.it.sample_bytes),
                         pattern_len)
             expected == PatAt(CMod(ch_pos_int(m.it.total_bytes, rt.channels,
                                               m.it.sample_bytes), pattern_len))
         IN  IF no_more_data(current_byte) THEN <<m0, i>>
             ELSE IF current_byte # expected
                  THEN <<[m1 EXCEPT !.it.is_buf_corrupted = TRUE], i>>
                  ELSE check_loop_i(inc_buf_pos(m1, 1, rt.dma_bytes), rt, i + 1)

check_buf_block_i(m, rt) ==
    LET r == check_loop_i(m, rt, 0)
    IN  inc_buf_pos(r[1], m.it.b_rw - r[2], rt.dma_bytes)

RECURSIVE check_loop_ni(_, _, _)
check_loop_ni(m, rt, i) ==
    IF ~(i < m.it.b_rw) THEN <<m, i>>
    ELSE LET channels == rt.channels
             pos == buf_pos_nint(m, channels, CMod(i, channels))
             current_byte == RdArea(m, pos)
             m0 == DivBy(Touch(m, pos), channels)
             m1 == DivBy(m0, pattern_len)
             expected == PatAt(CMod(CDiv(m.it.total_bytes, channels), pattern_len))
         IN  IF no_more_data(current_byte) THEN <<m0, i>>
             ELSE IF current_byte # expected
                  THEN <<[m1 EXCEPT !.it.is_buf_corrupted = TRUE], i>>
                  ELSE check_loop_ni(inc_buf_pos(m1, 1, rt.dma_bytes), rt, i + 1)

\* mutant: the channel blocks are scanned as interleaved frames
check_buf_block_ni_as_i(m, rt) == check_buf_block_i(m, rt)

check_buf_block_ni(m, rt) ==
    LET r == check_loop_ni(m, rt, 0)
    IN  inc_buf_pos(r[1], m.it.b_rw - r[2], rt.dma_bytes)

\* mutant: the block is passed over without a comparison
check_buf_block_skip(m, rt) == inc_buf_pos(m, m.it.b_rw, rt.dma_bytes)

check_buf_block(m, rt) ==
    IF m.it.interleaved THEN check_buf_block_i(m, rt)
    ELSE check_buf_block_ni(m, rt)

RECURSIVE fill_loop_nint(_, _, _)
fill_loop_nint(m, rt, i) ==
    IF ~(i < m.it.b_rw) THEN m
    ELSE LET channels == rt.channels
             pos == buf_pos_nint(m, channels, CMod(i, channels))
             b == PatAt(CMod(CDiv(m.it.total_bytes, channels), pattern_len))
             m1 == DivBy(DivBy(WrArea(m, pos, b), channels), pattern_len)
         IN  fill_loop_nint(inc_buf_pos(m1, 1, rt.dma_bytes), rt, i + 1)

fill_block_pattern_nint(m, rt) == fill_loop_nint(m, rt, 0)

RECURSIVE fill_loop_int(_, _, _)
fill_loop_int(m, rt, i) ==
    IF ~(i < m.it.b_rw) THEN m
    ELSE LET pos_in_ch == ch_pos_int(m.it.total_bytes, rt.channels, m.it.sample_bytes)
             b == PatAt(CMod(pos_in_ch, pattern_len))
             m1 == DivBy(DivBy(DivBy(WrArea(m, m.it.buf_pos, b), rt.channels),
                               m.it.sample_bytes), pattern_len)
         IN  fill_loop_int(inc_buf_pos(m1, 1, rt.dma_bytes), rt, i + 1)

\* mutant: the pattern is indexed by the buffer position
RECURSIVE fill_loop_int_bufpos(_, _, _)
fill_loop_int_bufpos(m, rt, i) ==
    IF ~(i < m.it.b_rw) THEN m
    ELSE LET pos_in_ch == ch_pos_int(m.it.buf_pos, rt.channels, m.it.sample_bytes)
             b == PatAt(CMod(pos_in_ch, pattern_len))
         IN  fill_loop_int_bufpos(inc_buf_pos(WrArea(m, m.it.buf_pos, b), 1,
                                              rt.dma_bytes), rt, i + 1)

fill_block_pattern_int_bufpos(m, rt) == fill_loop_int_bufpos(m, rt, 0)

fill_block_pattern_int(m, rt) == fill_loop_int(m, rt, 0)

\* mutant: the fill of the other layout is called
fill_block_pattern_swapped(m, rt) ==
    IF m.it.interleaved THEN fill_block_pattern_nint(m, rt)
    ELSE fill_block_pattern_int(m, rt)

fill_block_pattern(m, rt) ==
    IF m.it.interleaved THEN fill_block_pattern_int(m, rt)
    ELSE fill_block_pattern_nint(m, rt)

\* the body of the channel loop of fill_block_rand_nint for channel i
RECURSIVE rand_loop_nint(_, _, _, _, _)
rand_loop_nint(m, rt, bytes_remain, r, i) ==
    IF ~(i < rt.channels) THEN m
    ELSE LET channels == rt.channels
             m1 == IF m.it.b_rw <= bytes_remain
                   THEN WrRange(m, buf_pos_nint(m, channels, i),
                                CDiv(m.it.b_rw, channels), r)
                   ELSE WrRange(WrRange(m, buf_pos_nint(m, channels, i),
                                        CDiv(bytes_remain, channels), r),
                                m.it.chan_block * i,
                                CDiv(m.it.b_rw - bytes_remain, channels), r)
         IN  rand_loop_nint(m1, rt, bytes_remain, r, i + 1)

fill_block_rand_nint(m, rt, r) ==
    LET bytes_remain == SizeSub(rt.dma_bytes, m.it.buf_pos)
    IN  inc_buf_pos(rand_loop_nint(m, rt, bytes_remain, r, 0), m.it.b_rw, rt.dma_bytes)

fill_block_rand_int(m, rt, r) ==
    LET in_cur_block == SizeSub(rt.dma_bytes, m.it.buf_pos)
        m1 == IF m.it.b_rw <= in_cur_block
              THEN WrRange(m, m.it.buf_pos, m.it.b_rw, r)
              ELSE WrRange(WrRange(m, m.it.buf_pos, in_cur_block, r),
                           0, m.it.b_rw - in_cur_block, r)
    IN  inc_buf_pos(m1, m.it.b_rw, rt.dma_bytes)

fill_block_random(m, rt, r) ==
    IF m.it.interleaved THEN fill_block_rand_int(m, rt, r)
    ELSE fill_block_rand_nint(m, rt, r)

\* switch (fill_mode): no default case
fill_block(m, rt, r) ==
    IF fill_mode = FILL_MODE_RAND THEN fill_block_random(m, rt, r)
    ELSE IF fill_mode = FILL_MODE_PAT THEN fill_block_pattern(m, rt)
    ELSE m

\* v_iter->period_pos += b_rw; if (period_pos >= period_bytes) { %=; elapsed }
\* <<m, 1 if snd_pcm_period_elapsed was called else 0>>
period_step(m) ==
    LET pp == m.it.period_pos + m.it.b_rw
    IN  IF pp >= m.it.period_bytes
        THEN <<DivBy([m EXCEPT !.it.period_pos = CMod(pp, m.it.period_bytes)],
                     m.it.period_bytes), 1>>
        ELSE <<[m EXCEPT !.it.period_pos = pp], 0>>

\* mutant: the callback checks the buffer of every stream, and fills the
\* one of a capture stream after that
timer_body_check_any(it, rt, dir, r) ==
    LET m0 == [it |-> it, area |-> rt.dma_area, div0 |-> FALSE, oob |-> FALSE,
               adv |-> 0, rd |-> 0]
        m1 == IF ~it.is_buf_corrupted THEN check_buf_block(m0, rt)
              ELSE inc_buf_pos(m0, it.b_rw, rt.dma_bytes)
    IN  period_step(IF dir = CAPTURE THEN fill_block(m1, rt, r) ELSE m1)

\* mutant: the callback verifies a playback buffer whatever the flag
timer_body_recheck(it, rt, dir, r) ==
    LET m0 == [it |-> it, area |-> rt.dma_area, div0 |-> FALSE, oob |-> FALSE,
               adv |-> 0, rd |-> 0]
        m1 == IF dir = PLAYBACK THEN check_buf_block(m0, rt)
              ELSE fill_block(m0, rt, r)
    IN  period_step(m1)

\* timer_timeout up to mod_timer: <<m, elapsed>>
timer_body(it, rt, dir, r) ==
    LET m0 == [it |-> it, area |-> rt.dma_area, div0 |-> FALSE, oob |-> FALSE,
               adv |-> 0, rd |-> 0]
        m1 == IF dir = PLAYBACK /\ ~it.is_buf_corrupted THEN check_buf_block(m0, rt)
              ELSE IF dir = CAPTURE THEN fill_block(m0, rt, r)
              ELSE inc_buf_pos(m0, it.b_rw, rt.dma_bytes)
    IN  period_step(m1)


(* --------------------------- PCM callbacks ---------------------------- *)
\* what the framework negotiated in hw_params (sizes in frames)
\* with the buffer divided into one of 'periods' periods
Cfgs(chans, bits, accs, periods) ==
    {cfg \in [channels : chans, sample_bits : bits,
              rate : {TIMER_PER_SEC * k : k \in 1 .. MaxRateMul}, access : accs,
              buffer_size : 1 .. MaxBufFrames, period_size : 1 .. MaxBufFrames] :
        \E p \in periods : cfg.period_size * p = cfg.buffer_size}

\* mutant: the bytes are cleared before the allocation is tested
open_test_byte_early(ok, byte) == 0

\* playback_capture_test and ioctl_reset_test after snd_pcmtst_pcm_open: the
\* assignments stand behind the return of -ENOMEM
open_test_byte(ok, byte) == IF ok THEN 0 ELSE byte

\* snd_pcmtst_pcm_open; ok: kzalloc returned memory
Open(s, dir, ok) ==
    /\ ~fault /\ ~isopen[s]
    /\ IF ~ok
       THEN /\ ret' = -ENOMEM
            /\ playback_capture_test' = open_test_byte(ok, playback_capture_test)
            /\ ioctl_reset_test' = open_test_byte(ok, ioctl_reset_test)
            /\ UNCHANGED <<iter, isopen, stream, runtime, timer, fault, g>>
       ELSE /\ stream' = [stream EXCEPT ![s] = dir]
            /\ runtime' = [runtime EXCEPT ![s] = ZeroRuntime]
            /\ iter' = [iter EXCEPT ![s] = ZeroIter]
            /\ isopen' = [isopen EXCEPT ![s] = TRUE]
            /\ playback_capture_test' = open_test_byte(ok, playback_capture_test)
            /\ ioctl_reset_test' = open_test_byte(ok, ioctl_reset_test)
            /\ timer' = [timer EXCEPT ![s] = TRUE]
            /\ g' = [g EXCEPT ![s] = [ZeroGhost EXCEPT !.phase = "open"]]
            /\ ret' = 0
            /\ UNCHANGED fault
    /\ UNCHANGED <<patvars, cfgvars, seqvars, tk>>

\* mutant: the close publishes 1 whatever the flag
close_verdict_pass(it) == 1

\* !v_iter->is_buf_corrupted as stored in playback_capture_test
close_verdict(it) == IF it.is_buf_corrupted THEN 0 ELSE 1

\* snd_pcmtst_pcm_close: timer_shutdown_sync waits for a running callback and
\* forbids re-arming, then the verdict is computed
Close(s) ==
    /\ ~fault /\ isopen[s]
    /\ timer' = [timer EXCEPT ![s] = FALSE]
    /\ playback_capture_test' = close_verdict(iter[s])
    /\ iter' = [iter EXCEPT ![s] = ZeroIter]
    /\ isopen' = [isopen EXCEPT ![s] = FALSE]
    /\ runtime' = [runtime EXCEPT ![s] = ZeroRuntime]
    /\ g' = [g EXCEPT ![s] = [ZeroGhost EXCEPT
                  !.phase = "closed", !.total = iter[s].total_bytes,
                  !.dev = g[s].dev, !.devval = g[s].devval,
                  !.underrun = g[s].underrun, !.overtook = g[s].overtook,
                  !.oob = g[s].oob, !.post = g[s].post, !.cfg = g[s].cfg]]
    /\ ret' = 0
    /\ UNCHANGED <<stream, fault, ioctl_reset_test, patvars, cfgvars, seqvars, tk>>

\* mutant: the injected hw_params error is -EINVAL
hw_params_ret_einval(err) == IF err THEN -EINVAL ELSE 0

\* the return value of snd_pcmtst_pcm_hw_params with inject_hwpars_err = err
hw_params_ret(err) == IF err THEN -EBUSY ELSE 0

\* mutant: prepare never fails
prepare_ret_ok(err) == 0

\* the return value of snd_pcmtst_pcm_prepare with inject_prepare_err = err
prepare_ret(err) == IF err THEN -EINVAL ELSE 0

\* snd_pcmtst_pcm_hw_params; on success the framework has installed cfg
\* and a zeroed buffer in the runtime
HwParams(s, cfg) ==
    /\ ~fault /\ isopen[s]
    /\ ret' = hw_params_ret(inject_hwpars_err)
    /\ IF ret' # 0
       THEN /\ g' = [g EXCEPT ![s].post = Post(s, "hw_params")]
            /\ UNCHANGED runtime
       ELSE /\ LET rt == [channels |-> cfg.channels, sample_bits |-> cfg.sample_bits,
                          rate |-> cfg.rate, access |-> cfg.access,
                          period_size |-> cfg.period_size,
                          dma_bytes |-> 0, dma_area |-> ZeroArea(0)]
                   n == frames_to_bytes(rt, cfg.buffer_size)
               IN  runtime' = [runtime EXCEPT ![s] =
                                  [rt EXCEPT !.dma_bytes = n, !.dma_area = ZeroArea(n)]]
            /\ g' = [g EXCEPT ![s].written = 0, ![s].nhw = @ + 1,
                              ![s].post = Post(s, "hw_params"),
                              ![s].cfg = [channels |-> cfg.channels,
                                          sample_bits |-> cfg.sample_bits,
                                          access |-> cfg.access,
                                          dma_bytes |-> runtime'[s].dma_bytes]]
    /\ UNCHANGED <<iter, isopen, stream, timer, fault, playback_capture_test,
                   ioctl_reset_test, patvars, cfgvars, seqvars, tk>>

\* snd_pcmtst_pcm_prepare
Prepare(s) ==
    /\ ~fault /\ isopen[s]
    /\ ret' = prepare_ret(inject_prepare_err)
    /\ g' = [g EXCEPT ![s].post = Post(s, "prepare")]
    /\ UNCHANGED <<iter, isopen, stream, runtime, timer, fault,
                   playback_capture_test, ioctl_reset_test, patvars, cfgvars, seqvars, tk>>

\* mutant: the trigger clears is_buf_corrupted
trigger_iter_clear(it, rt) ==
    [it EXCEPT !.is_buf_corrupted = FALSE,
               !.b_rw = (((rt.rate * rt.sample_bits) \div 8) \div TIMER_PER_SEC)
                           * rt.channels]

\* mutant: b_rw is computed by the first trigger of a session only
trigger_iter_once(it, rt) ==
    LET it1 == [it EXCEPT !.sample_bytes = rt.sample_bits \div 8,
                          !.period_bytes = frames_to_bytes(rt, rt.period_size)]
        it2 == IF rt.access = RW_NONINTERLEAVED \/ rt.access = MMAP_NONINTERLEAVED
               THEN [it1 EXCEPT !.chan_block = CDiv(rt.dma_bytes, rt.channels),
                                !.interleaved = FALSE]
               ELSE [it1 EXCEPT !.interleaved = TRUE]
    IN  IF it.b_rw # 0 THEN it2
        ELSE [it2 EXCEPT !.b_rw =
                 (((rt.rate * rt.sample_bits) \div 8) \div TIMER_PER_SEC)
                     * rt.channels]

\* mutant: a period length once set is kept
trigger_iter_keep_period(it, rt) ==
    LET it1 == [it EXCEPT !.sample_bytes = rt.sample_bits \div 8,
                          !.period_bytes =
                              IF @ # 0 THEN @
                              ELSE frames_to_bytes(rt, rt.period_size)]
        it2 == IF rt.access = RW_NONINTERLEAVED \/ rt.access = MMAP_NONINTERLEAVED
               THEN [it1 EXCEPT !.chan_block = CDiv(rt.dma_bytes, rt.channels),
                                !.interleaved = FALSE]
               ELSE [it1 EXCEPT !.interleaved = TRUE]
    IN  [it2 EXCEPT !.b_rw =
            (((rt.rate * rt.sample_bits) \div 8) \div TIMER_PER_SEC) * rt.channels]

\* the assignments of snd_pcmtst_pcm_trigger
trigger_iter(it, rt) ==
    LET it1 == [it EXCEPT !.sample_bytes = rt.sample_bits \div 8,
                          !.period_bytes = frames_to_bytes(rt, rt.period_size)]
        it2 == IF rt.access = RW_NONINTERLEAVED \/ rt.access = MMAP_NONINTERLEAVED
               THEN [it1 EXCEPT !.chan_block = CDiv(rt.dma_bytes, rt.channels),
                                !.interleaved = FALSE]
               ELSE [it1 EXCEPT !.interleaved = TRUE]
    IN  [it2 EXCEPT !.b_rw =
            (((rt.rate * rt.sample_bits) \div 8) \div TIMER_PER_SEC) * rt.channels]

\* mutant: the trigger assigns before it looks at inject_trigger_err
trigger_result_late(it, rt, err) == trigger_iter(it, rt)

\* *v_iter after snd_pcmtst_pcm_trigger with inject_trigger_err = err
trigger_result(it, rt, err) == IF err THEN it ELSE trigger_iter(it, rt)

\* the return value of snd_pcmtst_pcm_trigger with inject_trigger_err = err
trigger_ret(err) == IF err THEN -EINVAL ELSE 0

\* snd_pcmtst_pcm_trigger; cmd is not read
Trigger(s, cmd) ==
    /\ ~fault /\ isopen[s]
    /\ ret' = trigger_ret(inject_trigger_err)
    /\ iter' = [iter EXCEPT ![s] =
                   trigger_result(iter[s], runtime[s], inject_trigger_err)]
    /\ g' = [g EXCEPT ![s].post = Post(s, "trigger"),
                      ![s].trig = @ \/ ret' = 0]
    /\ UNCHANGED <<isopen, stream, runtime, timer, fault, playback_capture_test,
                   ioctl_reset_test, patvars, cfgvars, seqvars, tk>>

\* mutant: every command is taken for a reset
ioctl_switch_any(cmd, old) == 1

\* the switch of snd_pcmtst_ioctl: ioctl_reset_test after cmd
ioctl_switch(cmd, old) == IF cmd = "SNDRV_PCM_IOCTL1_RESET" THEN 1 ELSE old

\* snd_pcmtst_ioctl
Ioctl(s, cmd) ==
    /\ ~fault /\ isopen[s]
    /\ ioctl_reset_test' = ioctl_switch(cmd, ioctl_reset_test)
    /\ ret' = 0
    /\ g' = [g EXCEPT ![s].post =
                IF cmd = "SNDRV_PCM_IOCTL1_RESET" THEN Post(s, "reset") ELSE @,
                      ![s].ioctls = @ \cup {cmd}]
    /\ UNCHANGED <<iter, isopen, stream, runtime, timer, fault, playback_capture_test,
                   patvars, cfgvars, seqvars, tk>>

\* a write of v to /sys/module/.../parameters/<name>, name one of the
\* inject_* booleans (mode 0600)
SetInject(name, v) ==
    /\ ~fault
    /\ inject_hwpars_err' = IF name = "inject_hwpars_err" THEN v ELSE inject_hwpars_err
    /\ inject_prepare_err' = IF name = "inject_prepare_err" THEN v ELSE inject_prepare_err
    /\ inject_trigger_err' = IF name = "inject_trigger_err" THEN v ELSE inject_trigger_err
    /\ UNCHANGED <<drvvars, patvars, fill_mode, ret, seqvars, tk>>

\* timer_timeout.  A tick that divided by zero either traps (the kernel
\* dies in the timer softirq: fault) or continues with the values of a
\* non-trapping divide; r is the byte get_random_bytes delivers.
Tick(s, r, trap) ==
    /\ ~fault /\ isopen[s] /\ timer[s]
    /\ IF iter[s].b_rw = 0 THEN g[s].idle < MaxIdleTicks
       ELSE g[s].ticks - g[s].idle < MaxTicks
    /\ LET res == timer_body(iter[s], runtime[s], stream[s], r)
           m == res[1]
           t == iter[s].total_bytes
           b == iter[s].b_rw
       IN  IF m.div0 /\ trap
           THEN /\ fault' = TRUE
                /\ UNCHANGED <<iter, runtime, g>>
           ELSE /\ m.div0 \/ ~trap
                /\ iter' = [iter EXCEPT ![s] = m.it]
                /\ runtime' = [runtime EXCEPT ![s].dma_area = m.area]
                /\ g' = [g EXCEPT ![s].adv = @ + m.adv,
                                  ![s].elapsed = @ + res[2],
                                  ![s].ticks = @ + 1,
                                  ![s].idle = IF b = 0 THEN @ + 1 ELSE @,
                                  ![s].oob = @ \/ m.oob,
                                  ![s].post = Post(s, "tick"),
                                  ![s].underrun = @ \/ (stream[s] = PLAYBACK
                                       /\ t + b > g[s].written),
                                  ![s].overtook = @ \/ (stream[s] = PLAYBACK
                                       /\ t + b > runtime[s].dma_bytes
                                       /\ t + b > g[s].written)]
                /\ UNCHANGED fault
    /\ ret' = ret
    /\ UNCHANGED <<isopen, stream, timer, playback_capture_test, ioctl_reset_test,
                   patvars, cfgvars, seqvars, tk>>


(* ------------------------- the playback writer ------------------------ *)
\* The application's data as the framework copies it into the buffer, one
\* frame per step.  Every channel carries the pattern repeated: byte j of a
\* channel is fill_pattern[j % pattern_len].  A byte is named by its index k
\* in the order the hardware pointer passes the bytes.
FrameBytes(rt) == frames_to_bytes(rt, 1)

\* index in its channel's byte stream of byte k
SrcChanIdx(rt, k) ==
    IF rt.access = RW_INTERLEAVED
    THEN ((k \div FrameBytes(rt)) * (rt.sample_bits \div 8))
         + (k % (rt.sample_bits \div 8))
    ELSE k \div rt.channels

\* the channel of byte k
SrcChan(rt, k) ==
    IF rt.access = RW_INTERLEAVED
    THEN (k % FrameBytes(rt)) \div (rt.sample_bits \div 8)
    ELSE k % rt.channels

\* the buffer offset byte k is stored at
SrcOffset(rt, k) ==
    IF rt.access = RW_INTERLEAVED
    THEN k % rt.dma_bytes
    ELSE ((rt.dma_bytes \div rt.channels) * SrcChan(rt, k))
         + (SrcChanIdx(rt, k) % (rt.dma_bytes \div rt.channels))

SrcByte(rt, k) == PatAt(SrcChanIdx(rt, k) % pattern_len)

\* bytes the application may send instead of the pattern byte
DevBytes == {0, 9}

\* one frame of snd_pcm_writei / snd_pcm_writen; d is the index of the byte
\* sent as v instead of the pattern byte, -1 for a faithful frame.  The
\* framework lets the application write only into the space the hardware
\* pointer has freed: never more than one buffer ahead of it.
Write(s, d, v) ==
    /\ ~fault /\ isopen[s] /\ stream[s] = PLAYBACK
    /\ runtime[s].dma_bytes > 0
    /\ g[s].frames < MaxWriteFrames
    /\ g[s].written + FrameBytes(runtime[s])
          <= iter[s].total_bytes + runtime[s].dma_bytes
    /\ LET rt == runtime[s]
           w == g[s].written
           ks == w .. w + FrameBytes(rt) - 1
           val(k) == IF k = d THEN v ELSE SrcByte(rt, k)
       IN  /\ d = -1 \/ (g[s].dev = -1 /\ d \in ks /\ v # SrcByte(rt, d))
           /\ runtime' = [runtime EXCEPT ![s].dma_area =
                  [o \in DOMAIN rt.dma_area |->
                      IF \E k \in ks : SrcOffset(rt, k) = o
                      THEN val(CHOOSE k \in ks : SrcOffset(rt, k) = o)
                      ELSE rt.dma_area[o]]]
           /\ g' = [g EXCEPT ![s].written = w + FrameBytes(rt),
                             ![s].frames = @ + 1,
                             ![s].dev = IF d = -1 THEN @ ELSE d,
                             ![s].devval = IF d = -1 THEN @ ELSE v]
    /\ UNCHANGED <<iter, isopen, stream, timer, fault, playback_capture_test,
                   ioctl_reset_test, ret, patvars, cfgvars, seqvars, tk>>

(* --------------------------- specifications --------------------------- *)
Abacaba == <<97, 98, 97, 99, 97, 98, 97>>

\* zero-free patterns
Patterns == {[i \in 1 .. n |-> i] : n \in 1 .. MaxPatLen} \cup {<<1, 2, 1, 3>>}

\* history of the pattern file:
\*   nw    number of pattern_write calls
\*   nr    number of pattern_read calls since the last pattern_write
\*   w     offset, user buffer (UserBuf(k, len)) and return value of the last
\*         pattern_write, the pattern_len it found and the number of bytes
\*         its copy_from_user was asked to store (off = -1: none yet)
\*   r     offset and length of the last pattern_read since then (off = -1:
\*         none), ok: its copy_to_user succeeded
ZeroPh ==
    [nw |-> 0, nr |-> 0,
     w |-> [off |-> -1, k |-> 0, len |-> 0, ret |-> 0, oldlen |-> 0,
            stored |-> 0],
     r |-> [off |-> -1, len |-> 0, ok |-> FALSE]]

\* the state after module init with the pattern file holding pat and the
\* module parameters as given
\* the module after its load, but for the variables of the variant
InitDrv(pat, mode, hwpars_err, prepare_err, trigger_err) ==
    /\ iter = [s \in Substreams |-> ZeroIter]
    /\ isopen = [s \in Substreams |-> FALSE]
    /\ stream = [s \in Substreams |-> PLAYBACK]
    /\ runtime = [s \in Substreams |-> ZeroRuntime]
    /\ timer = [s \in Substreams |-> FALSE]
    /\ fault = FALSE
    /\ playback_capture_test = 0
    /\ ioctl_reset_test = 0
    /\ fill_mode = mode
    /\ fill_pattern = pat
    /\ pattern_len = Len(pat)
    /\ inject_hwpars_err = hwpars_err
    /\ inject_prepare_err = prepare_err
    /\ inject_trigger_err = trigger_err
    /\ ret = 0
    /\ f_pos = 0
    /\ usr_buf = <<>>
    /\ ph = ZeroPh
    /\ g = [s \in Substreams |-> ZeroGhost]
    /\ tk = [s \in Substreams |-> ZeroTk]

InitCfg(pat, mode, hwpars_err, prepare_err, trigger_err) ==
    /\ InitDrv(pat, mode, hwpars_err, prepare_err, trigger_err)
    /\ alsav = ZeroAlsav
    /\ av = ZeroAv

\* the state after module init with the parameters at their defaults
InitWith(pat) == InitCfg(pat, FILL_MODE_PAT, FALSE, FALSE, FALSE)

Accesses == {RW_INTERLEAVED, RW_NONINTERLEAVED}

\* Capture sessions in pattern mode on substream 0, one hw_params per session.
InitCap == \E pat \in Patterns : InitWith(pat)

NextCap ==
    \/ Open(0, CAPTURE, TRUE)
    \/ \E cfg \in Cfgs(1 .. MAX_CHANNELS_NUM, {8, 16}, Accesses, {1}) :
          g[0].nhw = 0 /\ HwParams(0, cfg)
    \/ Prepare(0)
    \/ Trigger(0, "START")
    \/ Tick(0, 0, FALSE)
    \/ Tick(0, 0, TRUE)
    \/ Close(0)

SpecCap == InitCap /\ [][NextCap]_vars


(* ------------------------------ capture ------------------------------- *)
\* the stream indexes whose bytes the buffer of session s still holds
Held(s) ==
    Max(0, iter[s].total_bytes - runtime[s].dma_bytes) .. iter[s].total_bytes - 1

PatSession(s, dir) ==
    /\ isopen[s] /\ stream[s] = dir /\ ~g[s].oob /\ runtime[s].dma_bytes > 0

\* C5: in a pattern-mode interleaved single-channel capture session the
\* i-th byte produced since open lies at offset i mod buffer_len and equals
\* P[i mod len(P)], for every byte the buffer still holds.
C5_CaptureInterleavedMono ==
    (PatSession(0, CAPTURE) /\ runtime[0].channels = 1
        /\ runtime[0].access = RW_INTERLEAVED)
    => \A i \in Held(0) :
          runtime[0].dma_area[i % runtime[0].dma_bytes]
              = fill_pattern[(i % Len(fill_pattern)) + 1]

\* two-byte samples, the buffer has wrapped, the pattern does not divide it
C5_Witness ==
    /\ PatSession(0, CAPTURE) /\ runtime[0].channels = 1
    /\ runtime[0].access = RW_INTERLEAVED /\ runtime[0].sample_bits = 16
    /\ iter[0].total_bytes > runtime[0].dma_bytes
    /\ runtime[0].dma_bytes % Len(fill_pattern) # 0

\* C6: in a pattern-mode non-interleaved capture session with 1..4 channels
\* byte j of channel k lies at chan_block * k + (j mod chan_block) and
\* equals P[j mod len(P)], for every channel and every byte still held.
C6_CaptureNonInterleaved ==
    (PatSession(0, CAPTURE) /\ runtime[0].access = RW_NONINTERLEAVED)
    => LET C == runtime[0].channels
           cb == runtime[0].dma_bytes \div C
           J == iter[0].total_bytes \div C
       IN  /\ iter[0].total_bytes % C = 0
           /\ \A k \in 0 .. C - 1 : \A j \in Max(0, J - cb) .. J - 1 :
                 runtime[0].dma_area[cb * k + (j % cb)]
                     = fill_pattern[(j % Len(fill_pattern)) + 1]

C6_Witness ==
    /\ PatSession(0, CAPTURE) /\ runtime[0].access = RW_NONINTERLEAVED
    /\ runtime[0].channels = MAX_CHANNELS_NUM /\ runtime[0].sample_bits = 16
    /\ iter[0].total_bytes > runtime[0].dma_bytes
    /\ (runtime[0].dma_bytes \div MAX_CHANNELS_NUM) % Len(fill_pattern) # 0

DevAt(s) == {g[s].written + FrameBytes(runtime[s]) - 1}

\* a pattern that repeats a byte and the longest generated one
PlayPatterns == {<<1, 2, 1, 3>>, [i \in 1 .. MaxPatLen |-> i]}

InitPlay == \E pat \in PlayPatterns : InitWith(pat)

NextPlay ==
    \/ Open(0, PLAYBACK, TRUE)
    \/ \E cfg \in Cfgs({1, MAX_CHANNELS_NUM}, {8, 16}, Accesses, {1}) :
          /\ g[0].nhw = 0 /\ cfg.channels * cfg.sample_bits <= 32
          /\ HwParams(0, cfg)
    \/ Prepare(0)
    \/ Trigger(0, "START")
    \/ Write(0, -1, 0)
    \/ \E d \in DevAt(0), v \in DevBytes : Write(0, d, v)
    \/ Tick(0, 0, FALSE)
    \/ Tick(0, 0, TRUE)
    \/ Close(0)

SpecPlay == InitPlay /\ [][NextPlay]_vars


\* the session of substream s has been closed and was a playback session
\* with buffer, channels c and access a
ClosedPlay(s, c, a) ==
    /\ g[s].phase = "closed" /\ stream[s] = PLAYBACK
    /\ g[s].cfg.dma_bytes > 0 /\ g[s].cfg.channels \in c /\ g[s].cfg.access \in a

\* C2 as stated: a single-channel interleaved playback session fed the
\* pattern ends with verdict Pass for every interleaving of writer steps and
\* timer ticks.
C2_PassEveryInterleaving ==
    (ClosedPlay(0, {1}, {RW_INTERLEAVED}) /\ g[0].dev = -1)
    => playback_capture_test = 1

\* C2 amended: it ends with verdict Pass for every interleaving in which no
\* tick whose block reaches beyond the first buffer lap starts before the
\* writer has written that whole block.
C2_PassUnlessOvertaken ==
    (ClosedPlay(0, {1}, {RW_INTERLEAVED}) /\ g[0].dev = -1 /\ ~g[0].overtook)
    => playback_capture_test = 1

\* closed after the ticks wrapped the buffer, with an underrun in the
\* first lap, two-byte samples and a pattern that does not divide the buffer
C2_Witness ==
    /\ ClosedPlay(0, {1}, {RW_INTERLEAVED}) /\ g[0].dev = -1 /\ ~g[0].overtook
    /\ g[0].underrun /\ g[0].total > g[0].cfg.dma_bytes
    /\ g[0].cfg.sample_bits = 16
    /\ g[0].cfg.dma_bytes % pattern_len # 0
    /\ playback_capture_test = 1

\* C3 as stated: a playback session with exactly one deviating byte ends
\* with verdict Fail, whatever the deviating value and position.
C3_FailWhateverDeviation ==
    (ClosedPlay(0, 1 .. MAX_CHANNELS_NUM, Accesses) /\ g[0].dev # -1)
    => playback_capture_test = 0

\* C3 amended: it ends with verdict Fail when the deviating value is not
\* zero, every tick started on a completely written block and the ticks
\* have passed the position of the deviating byte before Close.
C3_FailWhenScanned ==
    (ClosedPlay(0, 1 .. MAX_CHANNELS_NUM, Accesses) /\ g[0].dev # -1
        /\ g[0].devval # 0 /\ ~g[0].underrun /\ g[0].total > g[0].dev)
    => playback_capture_test = 0

\* the deviating byte is in the second lap of a four-channel
\* non-interleaved buffer
C3_Witness ==
    /\ ClosedPlay(0, {MAX_CHANNELS_NUM}, {RW_NONINTERLEAVED})
    /\ g[0].dev >= g[0].cfg.dma_bytes /\ g[0].dev % MAX_CHANNELS_NUM # 0
    /\ g[0].devval # 0 /\ ~g[0].underrun /\ g[0].total > g[0].dev
    /\ playback_capture_test = 0

\* C8 as stated: a four-channel non-interleaved playback session whose
\* channels are fed the pattern ends with verdict Pass.
C8_NonInterleavedPass ==
    (ClosedPlay(0, {MAX_CHANNELS_NUM}, {RW_NONINTERLEAVED}) /\ g[0].dev = -1)
    => playback_capture_test = 1

\* C8 amended: it ends with verdict Pass when no tick whose block reaches
\* beyond the first buffer lap starts before the writer has written that
\* whole block.
C8_NonInterleavedPassUnlessOvertaken ==
    (ClosedPlay(0, {MAX_CHANNELS_NUM}, {RW_NONINTERLEAVED}) /\ g[0].dev = -1
        /\ ~g[0].overtook)
    => playback_capture_test = 1

\* closed with verdict 1 after the ticks wrapped the buffer without an
\* underrun, the pattern not dividing a channel block
C8_Witness ==
    /\ ClosedPlay(0, {MAX_CHANNELS_NUM}, {RW_NONINTERLEAVED}) /\ g[0].dev = -1
    /\ ~g[0].underrun /\ g[0].total > g[0].cfg.dma_bytes
    /\ (g[0].cfg.dma_bytes \div MAX_CHANNELS_NUM) % pattern_len # 0
    /\ playback_capture_test = 1


(* -------------------------- the pattern file -------------------------- *)
\* at most MaxPatWrites pattern_write calls, and MaxPatReads pattern_read
\* calls after each
MaxPatWrites == 1
MaxPatReads == 1

\* the user buffer of n non-zero bytes that starts with byte 1 + k % 7
UserBuf(k, n) == [i \in 1 .. n |-> 1 + ((i + k - 1) % 7)]

\* fill_pattern[] with bytes copied to offsets off .. off + Len(bytes) - 1
PatStore(pat, off, bytes) ==
    LET n == Len(bytes)
        m == Len(pat)
    IN  [i \in 1 .. Max(m, off + n) |->
            IF off < i /\ i <= off + n THEN bytes[i - off]
            ELSE IF i <= m THEN pat[i] ELSE 0]

\* mutant: the write is not cropped at the end of fill_pattern
pattern_write_to_write_nocrop(off, len) == len

\* to_write of pattern_write after the crop
pattern_write_to_write(off, len) ==
    IF off + len > MAX_PATTERN_LEN THEN MAX_PATTERN_LEN - off ELSE len

\* mutant: the bytes are stored one position further
pattern_write_store_shifted(pat, off, bytes) == PatStore(pat, off + 1, bytes)

\* copy_from_user(fill_pattern + *off, buff, to_write)
pattern_write_store(pat, off, bytes) == PatStore(pat, off, bytes)

\* mutant: the write always reports the whole user buffer
pattern_write_ret_len(len, to_write) == len

\* what pattern_write returns when copy_from_user did not fail
pattern_write_ret(len, to_write) == IF to_write <= 0 THEN len ELSE to_write

\* mutant: pattern_len is the number of bytes written
pattern_write_len_nooff(off, to_write) == to_write

\* pattern_len after a write
\* mutant: pattern_len is the offset of the write
pattern_write_len_off(off, to_write) == off

pattern_write_len(off, to_write) == off + to_write

\* pattern_write(file, buff, len, off) with *off = off and len = Len(buff);
\* copied < to_write: copy_from_user stops after copied bytes and zeroes
\* the rest of the destination
PatternWrite(off, k, len, copied) ==
    /\ ~fault /\ ph.nw < MaxPatWrites
    /\ LET buff == UserBuf(k, len)
           to_write == pattern_write_to_write(off, len)
       IN  IF to_write <= 0
           THEN /\ copied = 0
                /\ ret' = pattern_write_ret(len, to_write)
                /\ UNCHANGED <<fill_pattern, pattern_len>>
                /\ f_pos' = off
           ELSE /\ copied \in 0 .. to_write
                /\ IF copied < to_write
                   THEN /\ ret' = -EFAULT
                        /\ fill_pattern' = pattern_write_store(fill_pattern, off,
                              [i \in 1 .. to_write |->
                                  IF i <= copied THEN buff[i] ELSE 0])
                        /\ UNCHANGED pattern_len
                        /\ f_pos' = off
                   ELSE /\ fill_pattern' = pattern_write_store(fill_pattern, off,
                              SubSeq(buff, 1, to_write))
                        /\ pattern_len' = pattern_write_len(off, to_write)
                        /\ f_pos' = off + to_write
                        /\ ret' = pattern_write_ret(len, to_write)
    /\ usr_buf' = <<>>
    /\ ph' = [nw |-> ph.nw + 1, nr |-> 0,
              w |-> [off |-> off, k |-> k, len |-> len, ret |-> ret',
                     oldlen |-> pattern_len,
                     stored |-> Max(0, pattern_write_to_write(off, len))],
              r |-> ZeroPh.r]
    /\ UNCHANGED <<drvvars, cfgvars, seqvars, tk>>

\* to_read of pattern_read after the cap
pattern_read_to_read(off, len) ==
    IF off + len >= MAX_PATTERN_LEN THEN MAX_PATTERN_LEN - off ELSE len

\* pattern_read(file, buff, len, off) with *off = off; ok: copy_to_user
\* succeeds
PatternRead(off, len, ok) ==
    /\ ~fault /\ ph.nr < MaxPatReads
    /\ LET to_read == pattern_read_to_read(off, len)
       IN  IF to_read <= 0
           THEN /\ ok
                /\ ret' = 0
                /\ usr_buf' = <<>>
                /\ f_pos' = off
           ELSE IF ~ok
                THEN /\ ret' = 0
                     /\ usr_buf' = <<>>
                     /\ f_pos' = off
                ELSE /\ ret' = to_read
                     /\ usr_buf' = [i \in 1 .. to_read |-> PatAt(off + i - 1)]
                     /\ f_pos' = off + to_read
    /\ ph' = [ph EXCEPT !.nr = @ + 1,
                         !.r = [off |-> off, len |-> len, ok |-> ok]]
    /\ UNCHANGED <<fill_pattern, pattern_len, drvvars, cfgvars, seqvars, tk>>

\* the pattern_write calls of user space: <<offset, k, len>> writes
\* UserBuf(k, len) at offset
WriteCalls ==
    {<<0, 0, 3>>, <<0, 1, 3>>, <<0, 0, MAX_PATTERN_LEN>>,
     <<0, 0, MAX_PATTERN_LEN + 1>>, <<1, 0, 3>>, <<MAX_PATTERN_LEN - 1, 0, 3>>,
     <<MAX_PATTERN_LEN, 0, 1>>}

\* the pattern_read calls of user space: <<offset, len>>
ReadCalls ==
    {<<0, 3>>, <<0, MAX_PATTERN_LEN>>, <<0, MAX_PATTERN_LEN + 1>>, <<1, 3>>,
     <<MAX_PATTERN_LEN - 1, 3>>, <<MAX_PATTERN_LEN, 1>>}

\* what earlier writes left in fill_pattern: the default pattern or a full
\* buffer
StoredPatterns == {Abacaba, UserBuf(2, MAX_PATTERN_LEN)}

InitPat == \E pat \in StoredPatterns : InitWith(pat)

NextPat ==
    \/ \E c \in WriteCalls :
          PatternWrite(c[1], c[2], c[3],
                       Max(0, pattern_write_to_write(c[1], c[3])))
    \/ PatternWrite(0, 0, 3, 1)
    \/ \E c \in ReadCalls : PatternRead(c[1], c[2], TRUE)
    \/ PatternRead(0, 3, FALSE)

SpecPat == InitPat /\ [][NextPat]_vars

\* C9: for a pattern P with 1 <= len(P) <= MAX_PATTERN_LEN, after a
\* successful write of P at offset 0 a read of len(P) bytes at offset 0
\* returns len(P) and exactly the bytes of P, whatever was stored before.
C9_PatternRoundTrip ==
    (/\ ph.w.off = 0 /\ 1 <= ph.w.len /\ ph.w.len <= MAX_PATTERN_LEN
     /\ ph.w.ret = ph.w.len
     /\ ph.r.off = 0 /\ ph.r.len = ph.w.len /\ ph.r.ok)
    => ret = ph.w.len /\ usr_buf = UserBuf(ph.w.k, ph.w.len)

\* a three-byte pattern written over a full buffer has been read back
C9_Witness ==
    /\ ph.w.off = 0 /\ ph.w.len = 3 /\ ph.w.k = 1 /\ ph.w.ret = 3
    /\ ph.w.oldlen = MAX_PATTERN_LEN
    /\ ph.r.off = 0 /\ ph.r.len = 3 /\ ph.r.ok
    /\ usr_buf = UserBuf(1, 3)

\* C10: a write at offset 0 of more than MAX_PATTERN_LEN bytes stores
\* exactly the first MAX_PATTERN_LEN bytes, sets pattern_len to
\* MAX_PATTERN_LEN and returns MAX_PATTERN_LEN, not an error.
C10_LongWriteCropped ==
    (ph.w.off = 0 /\ ph.w.len > MAX_PATTERN_LEN /\ ph.w.ret # -EFAULT
        /\ ph.r.off = -1)
    => /\ fill_pattern = SubSeq(UserBuf(ph.w.k, ph.w.len), 1, MAX_PATTERN_LEN)
       /\ pattern_len = MAX_PATTERN_LEN
       /\ ret = MAX_PATTERN_LEN

\* MAX_PATTERN_LEN + 1 bytes have been written over the default pattern
C10_Witness ==
    /\ ph.w.off = 0 /\ ph.w.len = MAX_PATTERN_LEN + 1 /\ ph.r.off = -1
    /\ ph.w.oldlen = Len(Abacaba)
    /\ pattern_len = MAX_PATTERN_LEN /\ ret = MAX_PATTERN_LEN


\* the last pattern_write did not fail on its source
WriteDone == ph.w.off # -1 /\ ph.w.ret # -EFAULT

\* C11 as stated: every pattern_write that does not fail on its source
\* returns the number of bytes it stored, also at and beyond the capacity.
C11_ReturnIsStored == WriteDone => ph.w.ret = ph.w.stored

\* C11 amended: a pattern_write at an offset below MAX_PATTERN_LEN returns
\* the number of bytes it stored, which lie inside fill_pattern and are the
\* first bytes of the user buffer; at an offset of MAX_PATTERN_LEN or more
\* it stores nothing and returns len.
C11_ReturnIsStoredBelowCapacity ==
    (WriteDone /\ ph.r.off = -1)
    => /\ Len(fill_pattern) <= MAX_PATTERN_LEN
       /\ IF ph.w.off < MAX_PATTERN_LEN
          THEN /\ ph.w.ret = ph.w.stored
               /\ ph.w.ret = Min(ph.w.len, MAX_PATTERN_LEN - ph.w.off)
               /\ SubSeq(fill_pattern, ph.w.off + 1, ph.w.off + ph.w.ret)
                     = SubSeq(UserBuf(ph.w.k, ph.w.len), 1, ph.w.ret)
          ELSE ph.w.stored = 0 /\ ph.w.ret = ph.w.len

\* three bytes written at the last offset of fill_pattern: one was stored
C11_Witness ==
    /\ WriteDone /\ ph.r.off = -1
    /\ ph.w.off = MAX_PATTERN_LEN - 1 /\ ph.w.len = 3
    /\ ph.w.ret = 1 /\ ph.w.stored = 1

\* C12: after a pattern_write that did not fail and stored at least one
\* byte, pattern_len is its offset plus the number of bytes it stored; a
\* shorter write at offset 0 shortens a longer pattern.
C12_PatternLenFollowsWrite ==
    (WriteDone /\ ph.w.stored >= 1) => pattern_len = ph.w.off + ph.w.stored

\* three bytes written at offset 0 over a full buffer: pattern_len is 3
C12_Witness ==
    /\ WriteDone /\ ph.w.off = 0 /\ ph.w.len = 3 /\ ph.w.stored = 3
    /\ ph.w.oldlen = MAX_PATTERN_LEN /\ pattern_len = 3

\* C13 as stated: a pattern_read returns no byte at an index of pattern_len
\* or more, and nothing when its offset is at or beyond pattern_len.
C13_ReadCappedAtPatternLen ==
    (ph.r.off # -1 /\ ph.r.ok)
    => /\ ret <= Max(0, pattern_len - ph.r.off)
       /\ Len(usr_buf) = ret


(* --------------------------- the whole driver -------------------------- *)
\* The module is loaded with any fill_mode, or with one of the inject_*
\* parameters set; one two-channel substream is opened for playback or
\* capture and driven through every callback, with one hw_params per
\* session.
FillModes == {FILL_MODE_RAND, FILL_MODE_PAT, FILL_MODE_PAT + 1}
RandBytes == {7}
IoctlCmds == {"SNDRV_PCM_IOCTL1_RESET", "SNDRV_PCM_IOCTL1_INFO"}
TriggerCmds == {"SNDRV_PCM_TRIGGER_START", "SNDRV_PCM_TRIGGER_STOP"}

Init ==
    \/ \E mode \in FillModes : InitCfg(Abacaba, mode, FALSE, FALSE, FALSE)
    \/ \E e \in 1 .. 3 : InitCfg(Abacaba, FILL_MODE_PAT, e = 1, e = 2, e = 3)

Next ==
    \/ \E dir \in {PLAYBACK, CAPTURE}, ok \in BOOLEAN : Open(0, dir, ok)
    \/ \E cfg \in Cfgs({2}, {8}, Accesses, {1, 2}) :
          g[0].nhw = 0 /\ HwParams(0, cfg)
    \/ Prepare(0)
    \/ \E cmd \in TriggerCmds : Trigger(0, cmd)
    \/ \E cmd \in IoctlCmds : Ioctl(0, cmd)
    \/ \E r \in RandBytes, trap \in BOOLEAN : Tick(0, r, trap)
    \/ Write(0, -1, 0)
    \/ \E d \in DevAt(0), v \in DevBytes : Write(0, d, v)
    \/ Close(0)

Spec == Init /\ [][Next]_vars

\* Playback sessions of the module loaded with its defaults, through every
\* callback, with the second hw_params of a corrupted session.
InitSticky == InitWith(Abacaba)

NextSticky ==
    \/ Open(0, PLAYBACK, TRUE)
    \/ \E cfg \in Cfgs({2}, {8}, {RW_INTERLEAVED}, {1}) :
          /\ g[0].nhw = 0 \/ (iter[0].is_buf_corrupted /\ g[0].post = 0)
          /\ HwParams(0, cfg)
    \/ Prepare(0)
    \/ \E cmd \in TriggerCmds : Trigger(0, cmd)
    \/ \E cmd \in IoctlCmds : Ioctl(0, cmd)
    \/ \E trap \in BOOLEAN : Tick(0, 0, trap)
    \/ Write(0, -1, 0)
    \/ Close(0)

SpecSticky == InitSticky /\ [][NextSticky]_vars

\* C14: on an open session ioctl_reset_test reads 1 exactly when the
\* session has received a reset ioctl: the reset sets it before the close,
\* the open has cleared it, and no other command sets it.
C14_ResetByteFollowsReset ==
    isopen[0] =>
        (ioctl_reset_test = 1 <=> "SNDRV_PCM_IOCTL1_RESET" \in g[0].ioctls)

\* an open session has received a reset and another command after ticks
\* have run: the byte reads 1
C14_Witness ==
    /\ isopen[0] /\ g[0].ioctls = IoctlCmds /\ g[0].ticks > 0
    /\ ioctl_reset_test = 1

\* C15: every close publishes playback_capture_test = 1 when the session's
\* is_buf_corrupted is false and 0 when it is true, computed from the flag
\* as the last tick left it: the close has shut the timer down, and no tick
\* of a closed session runs (its timer stays shut, its iterator is not
\* touched again).
C15_CloseVerdict ==
    /\ [](~isopen[0] => ~timer[0])
    /\ [][/\ (isopen[0] /\ ~isopen'[0])
              => /\ playback_capture_test'
                      = (IF iter[0].is_buf_corrupted THEN 0 ELSE 1)
                 /\ ~timer'[0]
          /\ (~isopen[0] /\ ~isopen'[0])
              => /\ iter'[0] = iter[0]
                 /\ playback_capture_test' = playback_capture_test]_vars

\* a playback session that ticks had advanced and found corrupted was closed
\* after a reset ioctl, with verdict 0
C15_Witness ==
    /\ g[0].phase = "closed" /\ stream[0] = PLAYBACK /\ g[0].total > 0
    /\ ioctl_reset_test = 1 /\ g[0].dev # -1
    /\ playback_capture_test = 0 /\ ~timer[0]

\* C16: a capture session never has is_buf_corrupted set, whatever the fill
\* mode, the layout and the ticks, and its close publishes
\* playback_capture_test = 1.
C16_CaptureAlwaysPasses ==
    stream[0] = CAPTURE
        => /\ isopen[0] => ~iter[0].is_buf_corrupted
           /\ g[0].phase = "closed" => playback_capture_test = 1

\* a non-interleaved capture session that ticks had filled with random bytes
\* was closed with verdict 1
C16_Witness ==
    /\ stream[0] = CAPTURE /\ g[0].phase = "closed" /\ g[0].total > 0
    /\ g[0].cfg.access = RW_NONINTERLEAVED
    /\ fill_mode = FILL_MODE_RAND
    /\ playback_capture_test = 1

(* --------------------------- error injection --------------------------- *)
\* A playback session of the module loaded with its defaults, while the
\* inject_* parameters are written at any moment.  A failed hw_params may be
\* repeated; one hw_params per session succeeds.  The application writes one
\* frame, whose last byte deviates from the pattern.
InjectParams == {"inject_hwpars_err", "inject_prepare_err", "inject_trigger_err"}
InjectCfgs == Cfgs({2}, {8}, Accesses, {1})

InitInject == InitWith(Abacaba)

NextInject ==
    \/ Open(0, PLAYBACK, TRUE)
    \/ \E name \in InjectParams, v \in BOOLEAN : SetInject(name, v)
    \/ \E cfg \in InjectCfgs :
          (g[0].nhw = 0 \/ inject_hwpars_err) /\ HwParams(0, cfg)
    \/ Prepare(0)
    \/ \E cmd \in TriggerCmds : Trigger(0, cmd)
    \/ Ioctl(0, "SNDRV_PCM_IOCTL1_RESET")
    \/ \E trap \in BOOLEAN : Tick(0, 0, trap)
    \/ \E d \in DevAt(0) : Write(0, d, 9)
    \/ Close(0)

SpecInject == InitInject /\ [][NextInject]_vars

\* C17: every hw_params call returns -EBUSY when inject_hwpars_err is set at
\* the call and 0 when it is clear, whatever the parameters; every prepare
\* returns -EINVAL or 0 by inject_prepare_err, every trigger -EINVAL or 0 by
\* inject_trigger_err; the other two flags have no part in the result.
C17_InjectionPerOperation ==
    [][/\ (\E cfg \in InjectCfgs : HwParams(0, cfg))
            => ret' = (IF inject_hwpars_err THEN -EBUSY ELSE 0)
       /\ Prepare(0)
            => ret' = (IF inject_prepare_err THEN -EINVAL ELSE 0)
       /\ (\E cmd \in TriggerCmds : Trigger(0, cmd))
            => /\ ret' = (IF inject_trigger_err THEN -EINVAL ELSE 0)
               /\ ~inject_trigger_err
                    => iter'[0] = trigger_iter(iter[0], runtime[0])]_vars

\* hw_params has succeeded on the session, then inject_hwpars_err was set
\* and a second hw_params failed with -EBUSY while the other two flags were
\* clear
C17_Witness ==
    /\ isopen[0] /\ g[0].nhw = 1 /\ ret = -EBUSY
    /\ inject_hwpars_err /\ ~inject_prepare_err /\ ~inject_trigger_err

\* the fields of the session and the published bytes
SessionState ==
    <<iter[0].b_rw, iter[0].period_bytes, iter[0].sample_bytes,
      iter[0].interleaved, iter[0].chan_block, iter[0].buf_pos,
      iter[0].total_bytes, iter[0].period_pos, iter[0].is_buf_corrupted,
      timer[0], isopen[0], runtime[0], playback_capture_test, ioctl_reset_test>>

\* C18: a hw_params, prepare or trigger call that fails by its inject_* flag
\* leaves b_rw, period_bytes, sample_bytes, interleaved, chan_block,
\* buf_pos, total_bytes, period_pos, is_buf_corrupted, the timer,
\* playback_capture_test and ioctl_reset_test as they were.
C18_FailedCallChangesNothing ==
    [][(\/ inject_hwpars_err /\ \E cfg \in InjectCfgs : HwParams(0, cfg)
        \/ inject_prepare_err /\ Prepare(0)
        \/ inject_trigger_err /\ \E cmd \in TriggerCmds : Trigger(0, cmd))
          => SessionState' = SessionState]_vars

\* hw_params has failed with -EBUSY on a session that a trigger had started,
\* ticks had advanced and found corrupted, after a reset ioctl: the
\* session still runs as before
C18_Witness ==
    /\ isopen[0] /\ ret = -EBUSY /\ timer[0]
    /\ iter[0].b_rw > 0 /\ iter[0].total_bytes > 0 /\ iter[0].period_bytes > 0
    /\ iter[0].is_buf_corrupted /\ ioctl_reset_test = 1

(* ------------------- the sequence-checking variant ------------------- *)
\* The variant checks the playback buffer against the looped sequence
\* 0, 1, ..., FF.  Its functions map a record m to the record after the call:
\*   m.a     *alsav
\*   m.area  runtime->dma_area
\*   m.div0  a remainder by zero was executed
\*   m.oob   dma_area was read outside its bounds
SeqPeriod == 256

\* frames of one step of the writer
SeqChunk == 64

\* the one rate of snd_alsav_hw (rate_min = rate_max), scaled down: a tick
\* reads 48 bytes, which like the 3200 bytes of rate 8000 is no divisor of
\* the buffer length
AlsavRate == 120

\* mutant: the expected byte follows the loop index, not the position
alsav_check_loop_index(m, bytes, i) ==
    LET b == m.a.b_read
        bad == {j \in i .. b - 1 :
                   LET o == CMod(m.a.buf_pos + (j - i), bytes)
                   IN  RdArea(m, o) # 0 /\ RdArea(m, o) # j % SeqPeriod}
        k == IF bad = {} THEN b ELSE CHOOSE j \in bad : \A l \in bad : j <= l
    IN  <<[m EXCEPT !.a.buf_pos = CMod(@ + (k - i), bytes),
                    !.a.is_buf_corrupted = (bad # {})], k>>

\* the for loop of the variant's check_buf_block from index i: <<m, i at
\* the exit>>
RECURSIVE alsav_check_loop(_, _, _)
alsav_check_loop(m, bytes, i) ==
    IF i >= m.a.b_read THEN <<m, i>>
    ELSE LET pos == m.a.buf_pos
             byte == RdArea(m, pos)
             m1 == Touch(m, pos)
         IN  IF byte # 0 /\ (m.a.wrong_zero \/ byte # pos % SeqPeriod)
             THEN <<[m1 EXCEPT !.a.is_buf_corrupted = TRUE], i>>
             ELSE LET m2 == IF byte = 0 /\ pos % SeqPeriod # 0
                            THEN [m1 EXCEPT !.a.wrong_zero = TRUE] ELSE m1
                      m3 == DivBy([m2 EXCEPT !.a.buf_pos = CMod(pos + 1, bytes)],
                                  bytes)
                  IN  alsav_check_loop(m3, bytes, i + 1)

\* the variant's check_buf_block
alsav_check_buf_block(m, bytes) ==
    LET r == alsav_check_loop(m, bytes, 0)
    IN  DivBy([r[1] EXCEPT !.a.buf_pos = CMod(@ + (m.a.b_read - r[2]), bytes)],
              bytes)

\* the variant's timer_timeout up to mod_timer, for a non-NULL substream
alsav_timer_body(a, rt) ==
    LET m0 == [a |-> a, area |-> rt.dma_area, div0 |-> FALSE, oob |-> FALSE]
        m1 == IF rt.stream = PLAYBACK /\ ~a.is_buf_corrupted
              THEN alsav_check_buf_block(m0, rt.dma_bytes)
              ELSE DivBy([m0 EXCEPT !.a.buf_pos = CMod(@ + a.b_read, rt.dma_bytes)],
                         rt.dma_bytes)
        pp == m1.a.period_pos + m1.a.b_read
    IN  IF pp >= m1.a.period_bytes
        THEN DivBy([m1 EXCEPT !.a.period_pos = CMod(pp, m1.a.period_bytes)],
                   m1.a.period_bytes)
        ELSE [m1 EXCEPT !.a.period_pos = pp]

\* fill_buffer_seq over the whole buffer
fill_buffer_seq(area) == [o \in DOMAIN area |-> o % 256]

\* snd_alsav_pcm_open for the playback substream
AlsavOpen ==
    /\ ~av.fault /\ ~alsav.substream
    /\ alsav' = [alsav EXCEPT !.substream = TRUE, !.buf_pos = 0,
                              !.wrong_zero = FALSE, !.is_buf_corrupted = FALSE,
                              !.period_pos = 0]
    /\ av' = [ZeroAv EXCEPT !.timer = TRUE, !.phase = "open"]
    /\ ret' = 0
    /\ UNCHANGED <<drvvars, patvars, cfgvars, tk>>

\* snd_alsav_pcm_close
AlsavClose ==
    /\ ~av.fault /\ alsav.substream
    /\ alsav' = [alsav EXCEPT !.substream = FALSE]
    /\ av' = [ZeroAv EXCEPT
                 !.playback_capture_test = IF alsav.is_buf_corrupted THEN 0 ELSE 1,
                 !.starved = av.starved, !.read = av.read, !.phase = "closed"]
    /\ ret' = 0
    /\ UNCHANGED <<drvvars, patvars, cfgvars, tk>>

\* what the framework negotiated with snd_alsav_hw: one channel of S16_LE,
\* a buffer of a whole number of sequence periods
AlsavCfgs ==
    [rate : {AlsavRate},
     buffer_bytes : {SeqPeriod * n : n \in 1 .. MaxBufFrames},
     periods : {1, 2}]

\* snd_alsav_pcm_hw_params; the framework has installed cfg and a zeroed
\* buffer in the runtime
AlsavHwParams(cfg) ==
    /\ ~av.fault /\ alsav.substream /\ ~av.hw
    /\ av' = [av EXCEPT !.hw = TRUE, !.rate = cfg.rate, !.sample_bits = 16,
                        !.dma_bytes = cfg.buffer_bytes,
                        !.dma_area = ZeroArea(cfg.buffer_bytes),
                        !.period_size = (cfg.buffer_bytes \div cfg.periods) \div 2,
                        !.written = 0]
    /\ ret' = 0
    /\ UNCHANGED <<alsav, drvvars, patvars, cfgvars, tk>>

AlsavTriggerCmds == TriggerCmds \cup {"SNDRV_PCM_TRIGGER_PAUSE_PUSH"}

\* snd_alsav_pcm_trigger; frames of the one S16_LE channel are two bytes
AlsavTrigger(cmd) ==
    /\ ~av.fault /\ alsav.substream
    /\ alsav' = [alsav EXCEPT
                    !.period_bytes = av.period_size * 2,
                    !.b_read = ((av.rate * av.sample_bits) \div 8) \div TIMER_PER_SEC]
    /\ av' = IF cmd = "SNDRV_PCM_TRIGGER_START" /\ av.stream = CAPTURE
             THEN [av EXCEPT !.dma_area = fill_buffer_seq(@)] ELSE av
    /\ ret' = IF cmd \in TriggerCmds THEN 0 ELSE -EINVAL
    /\ UNCHANGED <<drvvars, patvars, cfgvars, tk>>

\* the variant's timer_timeout with a non-NULL substream.  A tick that
\* divided by zero or read outside the buffer either traps (fault) or
\* continues with the values of a non-trapping divide and a zero byte.
AlsavTick(trap) ==
    /\ ~av.fault /\ av.timer /\ alsav.substream
    /\ IF alsav.b_read = 0 THEN av.idle < MaxIdleTicks
       ELSE av.ticks - av.idle < 2 * MaxTicks
    /\ LET m == alsav_timer_body(alsav, av)
           b == alsav.b_read
           unwritten(o) == o >= Min(av.written, av.dma_bytes)
       IN  IF (m.div0 \/ m.oob) /\ trap
           THEN /\ av' = [av EXCEPT !.fault = TRUE]
                /\ UNCHANGED alsav
           ELSE /\ (m.div0 \/ m.oob) \/ ~trap
                /\ alsav' = m.a
                /\ av' = [av EXCEPT
                      !.read = @ + b, !.ticks = @ + 1,
                      !.idle = IF b = 0 THEN @ + 1 ELSE @,
                      !.starved = @ \/ m.oob
                          \/ (~alsav.is_buf_corrupted
                              /\ \E i \in 0 .. b - 1 :
                                    unwritten(CMod(alsav.buf_pos + i, av.dma_bytes)))]
    /\ UNCHANGED <<ret, drvvars, patvars, cfgvars, tk>>

\* one step of snd_pcm_writei on the variant: SeqChunk frames of the looped
\* sequence, stream byte k = k % 256 stored at offset k % dma_bytes.  The
\* framework lets the application write only into the space the hardware
\* pointer has freed.
AlsavWrite ==
    /\ ~av.fault /\ alsav.substream /\ av.hw
    /\ av.written + 2 * SeqChunk <= av.read + av.dma_bytes
    /\ LET w == av.written
           n == av.dma_bytes
           \* the stream index in w .. w + n - 1 stored at offset o
           idx(o) == w + ((o + n - (w % n)) % n)
       IN  av' = [av EXCEPT
                    !.written = w + 2 * SeqChunk,
                    !.dma_area = [o \in DOMAIN av.dma_area |->
                        IF idx(o) < w + 2 * SeqChunk THEN idx(o) % 256
                        ELSE av.dma_area[o]]]
    /\ UNCHANGED <<alsav, ret, drvvars, patvars, cfgvars, tk>>

\* A playback session of the variant fed the looped sequence.
InitSeq == InitWith(Abacaba)

NextSeq ==
    \/ AlsavOpen
    \/ \E cfg \in AlsavCfgs : AlsavHwParams(cfg)
    \/ \E cmd \in AlsavTriggerCmds : AlsavTrigger(cmd)
    \/ \E trap \in BOOLEAN : AlsavTick(trap)
    \/ AlsavWrite
    \/ AlsavClose

SpecSeq == InitSeq /\ [][NextSeq]_vars

\* C19 as stated: every closed playback session of the variant that was fed
\* the looped sequence has verdict 1, whatever the interleaving of writer
\* steps and ticks.
C19_SeqPassEveryInterleaving ==
    av.phase = "closed" => av.playback_capture_test = 1

\* C19: a closed playback session of the variant fed the looped sequence has
\* verdict 1 when every byte its ticks read had been written before, and a
\* session whose verdict is 0 had a tick that read an unwritten byte.
C19_SeqPassUnlessStarved ==
    /\ (av.phase = "closed" /\ ~av.starved) => av.playback_capture_test = 1
    /\ (alsav.substream /\ alsav.is_buf_corrupted) => av.starved

\* a session whose ticks read more than the buffer holds, every byte of it
\* written before, was closed with verdict 1
C19_Witness ==
    /\ av.phase = "closed" /\ ~av.starved /\ av.read > SeqPeriod
    /\ av.playback_capture_test = 1

\* C20 as stated: no tick of a session executes between its open and its
\* first successful trigger (the trigger callback does not read its command:
\* a successful start is a trigger that returned 0).
C20_NoTickBeforeTrigger ==
    (isopen[0] /\ ~g[0].trig) => (g[0].ticks = 0 /\ ~fault)

(* ----------------------------- two streams ----------------------------- *)
\* A playback substream (0) and a capture substream (1) of the module
\* loaded with its defaults, open at the same time; one hw_params per
\* session, no writer.
TwoDir(s) == IF s = 0 THEN PLAYBACK ELSE CAPTURE
TwoCfgs == Cfgs({2}, {8}, {RW_INTERLEAVED}, {1})

InitTwo == InitWith(Abacaba)

NextTwo ==
    \/ \E s \in Substreams : Open(s, TwoDir(s), TRUE)
    \/ \E s \in Substreams, cfg \in TwoCfgs : g[s].nhw = 0 /\ HwParams(s, cfg)
    \/ \E s \in Substreams : Trigger(s, "SNDRV_PCM_TRIGGER_START")
    \/ \E s \in Substreams : Ioctl(s, "SNDRV_PCM_IOCTL1_RESET")
    \/ \E s \in Substreams, trap \in BOOLEAN : Tick(s, 7, trap)
    \/ \E s \in Substreams : Close(s)

SpecTwo == InitTwo /\ [][NextTwo]_vars

\* an open, close, trigger, reset or tick of substream s
StreamStep(s) ==
    \/ Open(s, TwoDir(s), TRUE)
    \/ Close(s)
    \/ Trigger(s, "SNDRV_PCM_TRIGGER_START")
    \/ Ioctl(s, "SNDRV_PCM_IOCTL1_RESET")
    \/ \E trap \in BOOLEAN : Tick(s, 7, trap)

\* C23 as stated: while the session of substream 0 is open, an open, close,
\* trigger, reset or tick of substream 1 changes neither the iterator of
\* substream 0 nor the verdict byte nor the reset byte it reads.
C23_StreamsIndependent ==
    [][(isopen[0] /\ StreamStep(1))
          => /\ iter'[0] = iter[0]
             /\ playback_capture_test' = playback_capture_test
             /\ ioctl_reset_test' = ioctl_reset_test]_vars

\* what the code does keep apart: the iterator, the runtime and the timer
\* of substream 0 are not touched by the steps of substream 1
TwoIteratorsIndependent ==
    [][StreamStep(1)
          => /\ iter'[0] = iter[0] /\ runtime'[0] = runtime[0]
             /\ timer'[0] = timer[0] /\ isopen'[0] = isopen[0]]_vars

\* C24 as stated: every tick adds the full b_rw to total_bytes (the sum of
\* the inc_buf_pos arguments), as it does to the period accumulator, for
\* playback and capture, both layouts and every fill_mode.
C24_TickAdvancesFull ==
    [][(isopen[0] /\ g'[0].ticks = g[0].ticks + 1)
          => /\ g'[0].adv = g[0].adv + iter[0].b_rw
             /\ iter'[0].total_bytes = iter[0].total_bytes + iter[0].b_rw]_vars

\* ---- the configurations snd_pcmtst_hw permits, at their real sizes ----

PERIOD_BYTES_MIN == 4096
PERIOD_BYTES_MAX == 32768
HwRates == {8000, 11025, 16000, 22050, 32000, 44100, 48000}
HwBits == {8, 16}
HwPeriodMul == {1, 8}

\* the fewest frames whose bytes reach period_bytes_min
MinPeriodFrames(c, b) == (PERIOD_BYTES_MIN * 8 + c * b - 1) \div (c * b)

\* one period per buffer, the period a multiple of the smallest one and
\* within period_bytes_max
HwCfgs ==
    {cfg \in {[channels |-> c, sample_bits |-> b, rate |-> r,
               access |-> RW_INTERLEAVED,
               buffer_size |-> k * MinPeriodFrames(c, b),
               period_size |-> k * MinPeriodFrames(c, b)] :
                  c \in 1 .. MAX_CHANNELS_NUM, b \in HwBits, r \in HwRates,
                  k \in HwPeriodMul} :
        (cfg.period_size * cfg.channels * cfg.sample_bits) \div 8 <= PERIOD_BYTES_MAX}

InitHw == InitWith(Abacaba)

NextHw ==
    \/ \E dir \in {PLAYBACK, CAPTURE} : Open(0, dir, TRUE)
    \/ \E cfg \in HwCfgs :
          /\ \/ g[0].nhw = 0
             \/ /\ g[0].nhw = 1 /\ g[0].trig
                /\ cfg.period_size = MinPeriodFrames(cfg.channels, cfg.sample_bits)
          /\ HwParams(0, cfg)
    \/ Prepare(0)
    \/ \E cmd \in TriggerCmds : Trigger(0, cmd)
    \/ Close(0)

SpecHw == InitHw /\ [][NextHw]_vars

\* C27 as stated: for every permitted configuration the bytes of one tick do
\* not exceed the bytes of one period.
C27_TickWithinPeriod ==
    (isopen[0] /\ g[0].trig /\ g[0].nhw = 1) => iter[0].b_rw <= iter[0].period_bytes

\* C29: a tick of a playback session whose is_buf_corrupted is set reads no
\* byte of the buffer and compares nothing; it leaves the buffer and the flag
\* as they are and advances buf_pos and total_bytes by b_rw and the period
\* clock by b_rw.
C29_CorruptedTickOnlyAdvances ==
    [][(isopen[0] /\ stream[0] = PLAYBACK /\ iter[0].is_buf_corrupted
           /\ g'[0].ticks = g[0].ticks + 1)
          => LET it == iter[0]
                 m == timer_body(it, runtime[0], PLAYBACK, 0)[1]
             IN  /\ m.rd = 0
                 /\ iter'[0] = m.it
                 /\ runtime'[0] = runtime[0]
                 /\ iter'[0].is_buf_corrupted
                 /\ iter'[0].total_bytes = it.total_bytes + it.b_rw
                 /\ iter'[0].buf_pos = CMod(it.buf_pos + it.b_rw, runtime[0].dma_bytes)
                 /\ iter'[0].period_pos =
                       IF it.period_pos + it.b_rw >= it.period_bytes
                       THEN CMod(it.period_pos + it.b_rw, it.period_bytes)
                       ELSE it.period_pos + it.b_rw]_vars

\* a corrupted playback session that has ticked with the flag already set
C29_Witness ==
    /\ isopen[0] /\ stream[0] = PLAYBACK /\ iter[0].is_buf_corrupted
    /\ iter[0].b_rw > 0 /\ g[0].post >= 2

\* ---- close against a callback in progress ----
\* The timer callback runs in softirq context on any CPU, the close in the
\* context of the process.  The actions below split both at the points where
\* the other one can run: the callback between its start (the timer core has
\* taken the timer off the pending list and called timer_timeout) and its
\* mod_timer, the close between the shutdown of the timer and the return of
\* timer_shutdown_sync.

\* mutant: the timer is shut down without waiting for the callback
timer_shutdown_sync_nowait(t) == TRUE

\* timer_shutdown_sync returns when no callback of the timer is executing
timer_shutdown_sync_done(t) == ~t.run

\* the timer expires: the core dequeues it and calls timer_timeout
TickBegin(s) ==
    /\ ~fault /\ ~tk[s].uaf /\ timer[s] /\ ~tk[s].run
    /\ IF iter[s].b_rw = 0 THEN g[s].idle < MaxIdleTicks
       ELSE g[s].ticks - g[s].idle < MaxTicks
    /\ timer' = [timer EXCEPT ![s] = FALSE]
    /\ tk' = [tk EXCEPT ![s].run = TRUE]
    /\ UNCHANGED <<iter, isopen, stream, runtime, fault, playback_capture_test,
                   ioctl_reset_test, g, ret, patvars, cfgvars, seqvars>>

\* timer_timeout from its first statement to the return of mod_timer, which
\* arms the timer unless it was shut down
TickEnd(s, r, trap) ==
    /\ ~fault /\ ~tk[s].uaf /\ tk[s].run
    /\ LET res == timer_body(iter[s], runtime[s], stream[s], r)
           m == res[1]
           b == iter[s].b_rw
       IN  IF m.div0 /\ trap
           THEN /\ fault' = TRUE
                /\ UNCHANGED <<iter, runtime, g, timer, tk>>
           ELSE /\ m.div0 \/ ~trap
                /\ iter' = [iter EXCEPT ![s] = m.it]
                /\ runtime' = [runtime EXCEPT ![s].dma_area = m.area]
                /\ g' = [g EXCEPT ![s].adv = @ + m.adv,
                                  ![s].elapsed = @ + res[2],
                                  ![s].ticks = @ + 1,
                                  ![s].idle = IF b = 0 THEN @ + 1 ELSE @,
                                  ![s].oob = @ \/ m.oob]
                /\ timer' = [timer EXCEPT ![s] = ~tk[s].shut]
                /\ tk' = [tk EXCEPT ![s].run = FALSE,
                                    ![s].waited = @ \/ tk[s].closing]
                /\ UNCHANGED fault
    /\ UNCHANGED <<isopen, stream, playback_capture_test, ioctl_reset_test, ret,
                   patvars, cfgvars, seqvars>>

\* snd_pcmtst_pcm_close up to the point where timer_shutdown_sync has shut
\* the timer down and taken it off the pending list
CloseBegin(s) ==
    /\ ~fault /\ ~tk[s].uaf /\ isopen[s] /\ ~tk[s].closing
    /\ timer' = [timer EXCEPT ![s] = FALSE]
    /\ tk' = [tk EXCEPT ![s].shut = TRUE, ![s].closing = TRUE,
                        ![s].waited = FALSE]
    /\ UNCHANGED <<iter, isopen, stream, runtime, fault, playback_capture_test,
                   ioctl_reset_test, g, ret, patvars, cfgvars, seqvars>>

\* the return of timer_shutdown_sync and the rest of snd_pcmtst_pcm_close:
\* substream = NULL, the verdict, kfree
CloseEnd(s) ==
    /\ ~fault /\ ~tk[s].uaf /\ isopen[s] /\ tk[s].closing
    /\ timer_shutdown_sync_done(tk[s])
    /\ playback_capture_test' = close_verdict(iter[s])
    /\ iter' = [iter EXCEPT ![s] = ZeroIter]
    /\ isopen' = [isopen EXCEPT ![s] = FALSE]
    /\ runtime' = [runtime EXCEPT ![s] = ZeroRuntime]
    /\ g' = [g EXCEPT ![s] = [ZeroGhost EXCEPT
                  !.phase = "closed", !.total = iter[s].total_bytes,
                  !.oob = g[s].oob, !.cfg = g[s].cfg]]
    /\ tk' = [tk EXCEPT ![s] = [ZeroTk EXCEPT !.waited = tk[s].waited,
                                             !.run = tk[s].run,
                                             !.uaf = tk[s].run]]
    /\ ret' = 0
    /\ UNCHANGED <<stream, timer, fault, ioctl_reset_test, patvars, cfgvars,
                   seqvars>>

ShutCfgs == Cfgs({2}, {8}, {RW_INTERLEAVED}, {1})

InitShut == InitWith(Abacaba)

\* the PCM core does not call another callback of a substream while its
\* close runs
NextShut ==
    \/ \E dir \in {PLAYBACK, CAPTURE} : Open(0, dir, TRUE)
    \/ \E cfg \in ShutCfgs : g[0].nhw = 0 /\ ~tk[0].closing /\ HwParams(0, cfg)
    \/ ~tk[0].closing /\ Trigger(0, "SNDRV_PCM_TRIGGER_START")
    \/ TickBegin(0)
    \/ \E trap \in BOOLEAN : TickEnd(0, 0, trap)
    \/ CloseBegin(0)
    \/ CloseEnd(0)

SpecShut == InitShut /\ [][NextShut]_vars

\* C21: close returns from timer_shutdown_sync only when no callback of the
\* session is executing; from the shutdown on the timer is never pending
\* again and no callback starts; and no callback is executing on an
\* iterator that was freed.
C21_CloseWaitsForTick ==
    /\ [](/\ ~tk[0].uaf
          /\ (tk[0].shut \/ ~isopen[0]) => ~timer[0]
          /\ ~isopen[0] => ~tk[0].run)
    /\ [][/\ (tk[0].shut \/ ~isopen[0]) => ~(tk'[0].run /\ ~tk[0].run)
          /\ (isopen[0] /\ ~isopen'[0]) => ~tk[0].run]_vars

\* a session is closed whose close stood in timer_shutdown_sync while a
\* callback ran to its end
C21_Witness ==
    ~isopen[0] /\ g[0].phase = "closed" /\ tk[0].waited /\ g[0].total > 0

\* ---- alsav.c: one struct alsav and one timer for both substreams ----
\* snd_pcm_new creates one playback and one capture substream; both use the
\* global alsav and the global timer.  In this part of the module
\*   alsav  is the struct alsav of alsav.c (substream: -1 for NULL, else the
\*          index of the substream),
\*   av     holds, per substream, whether it is open and its runtime, and for
\*          the timer: pend (armed), run (timer_timeout is executing), sub
\*          (the substream whose runtime the executing callback has loaded),
\*          opener (the substream whose open stands between its assignments
\*          and its timer_shutdown_sync, -1 if none), ticks (callbacks since
\*          the last open began).
\* fill_mode, fill_pattern, pattern_len, playback_capture_test,
\* ioctl_reset_test, fault and ret are the variables of the same names.

GlobAlsav ==
    [substream |-> -1, buf_pos |-> 0, period_pos |-> 0, b_rw |-> 0,
     is_buf_corrupted |-> FALSE, period_bytes |-> 0, total_bytes |-> 0]

GlobRuntime ==
    [dma_bytes |-> 0, dma_area |-> ZeroArea(0), rate |-> 0, sample_bits |-> 0,
     channels |-> 0, period_size |-> 0]

GlobAv ==
    [open |-> [s \in Substreams |-> FALSE],
     rt |-> [s \in Substreams |-> GlobRuntime],
     pend |-> FALSE, run |-> FALSE, sub |-> -1, opener |-> -1, ticks |-> 0]

glob_inc_buf_pos(m, by, bytes) ==
    DivBy([m EXCEPT !.a.total_bytes = @ + by,
                    !.a.buf_pos = CMod(@ + by, bytes)], bytes)

RECURSIVE glob_check_loop(_, _, _)
glob_check_loop(m, bytes, i) ==
    IF ~(i < m.a.b_rw) THEN <<m, i>>
    ELSE LET current_byte == RdArea(m, m.a.buf_pos)
             m0 == Touch(m, m.a.buf_pos)
             m1 == DivBy(m0, pattern_len)
         IN  IF current_byte = 0 THEN <<m0, i>>
             ELSE IF current_byte # PatAt(CMod(m.a.total_bytes, pattern_len))
                  THEN <<[m1 EXCEPT !.a.is_buf_corrupted = TRUE], i>>
                  ELSE glob_check_loop(glob_inc_buf_pos(m1, 1, bytes), bytes, i + 1)

glob_check_buf_block(m, bytes) ==
    LET r == glob_check_loop(m, bytes, 0)
    IN  glob_inc_buf_pos(r[1], m.a.b_rw - r[2], bytes)

RECURSIVE glob_fill_loop(_, _, _)
glob_fill_loop(m, bytes, i) ==
    IF ~(i < m.a.b_rw) THEN m
    ELSE LET b == PatAt(CMod(m.a.total_bytes, pattern_len))
             m1 == DivBy(WrArea(m, m.a.buf_pos, b), pattern_len)
         IN  glob_fill_loop(glob_inc_buf_pos(m1, 1, bytes), bytes, i + 1)

glob_fill_block_random(m, bytes, r) ==
    LET in_cur_block == SizeSub(bytes, m.a.buf_pos)
        m1 == IF m.a.b_rw <= in_cur_block
              THEN WrRange(m, m.a.buf_pos, m.a.b_rw, r)
              ELSE WrRange(WrRange(m, m.a.buf_pos, in_cur_block, r),
                           0, m.a.b_rw - in_cur_block, r)
    IN  glob_inc_buf_pos(m1, m.a.b_rw, bytes)

glob_fill_block(m, bytes, r) ==
    IF fill_mode = FILL_MODE_RAND THEN glob_fill_block_random(m, bytes, r)
    ELSE IF fill_mode = FILL_MODE_PAT THEN glob_fill_loop(m, bytes, 0)
    ELSE m

\* timer_timeout of alsav.c between the load of runtime and mod_timer, for
\* the runtime rt it has loaded and the direction dir it reads
glob_timer_body(a, rt, dir, r) ==
    LET m0 == [a |-> a, area |-> rt.dma_area, div0 |-> FALSE, oob |-> FALSE,
               rd |-> 0]
        m1 == IF dir = PLAYBACK /\ ~a.is_buf_corrupted
              THEN glob_check_buf_block(m0, rt.dma_bytes)
              ELSE IF dir = CAPTURE THEN glob_fill_block(m0, rt.dma_bytes, r)
              ELSE glob_inc_buf_pos(m0, a.b_rw, rt.dma_bytes)
        pp == m1.a.period_pos + m1.a.b_rw
    IN  IF pp >= m1.a.period_bytes
        THEN DivBy([m1 EXCEPT !.a.period_pos = CMod(pp, m1.a.period_bytes)],
                   m1.a.period_bytes)
        ELSE [m1 EXCEPT !.a.period_pos = pp]

\* snd_alsav_pcm_open up to its timer_shutdown_sync: the assignments
GlobOpenReset(s) ==
    /\ ~fault /\ ~av.open[s] /\ av.opener = -1
    /\ alsav' = [alsav EXCEPT !.substream = s, !.buf_pos = 0,
                              !.is_buf_corrupted = FALSE, !.period_pos = 0,
                              !.total_bytes = 0]
    /\ playback_capture_test' = 0
    /\ ioctl_reset_test' = 0
    /\ av' = [av EXCEPT !.opener = s, !.rt[s] = GlobRuntime, !.ticks = 0]
    /\ UNCHANGED <<iter, isopen, stream, runtime, timer, fault, g, ret, patvars,
                   cfgvars, tk>>

\* timer_shutdown_sync, which returns when no callback is executing,
\* timer_setup and mod_timer
GlobOpenTimer(s) ==
    /\ ~fault /\ av.opener = s /\ ~av.run
    /\ av' = [av EXCEPT !.opener = -1, !.open[s] = TRUE, !.pend = TRUE]
    /\ ret' = 0
    /\ UNCHANGED <<drvvars, alsav, patvars, cfgvars, tk>>

GlobClose(s) ==
    /\ ~fault /\ av.open[s] /\ av.opener = -1 /\ ~av.run
    /\ alsav' = [alsav EXCEPT !.substream = -1]
    /\ playback_capture_test' = IF alsav.is_buf_corrupted THEN 0 ELSE 1
    /\ av' = [av EXCEPT !.open[s] = FALSE, !.pend = FALSE]
    /\ ret' = 0
    /\ UNCHANGED <<iter, isopen, stream, runtime, timer, fault, ioctl_reset_test,
                   g, patvars, cfgvars, tk>>

\* the core's hw_params: the callback of the driver is empty
GlobHwParams(s, cfg) ==
    /\ ~fault /\ av.open[s] /\ av.rt[s].dma_bytes = 0
    /\ LET n == (cfg.buffer_size * cfg.channels * cfg.sample_bits) \div 8
       IN  av' = [av EXCEPT !.rt[s] =
                     [dma_bytes |-> n, dma_area |-> ZeroArea(n), rate |-> cfg.rate,
                      sample_bits |-> cfg.sample_bits, channels |-> cfg.channels,
                      period_size |-> cfg.period_size]]
    /\ ret' = 0
    /\ UNCHANGED <<drvvars, alsav, patvars, cfgvars, tk>>

GlobTrigger(s) ==
    /\ ~fault /\ av.open[s]
    /\ alsav' = [alsav EXCEPT
          !.period_bytes = frames_to_bytes(av.rt[s], av.rt[s].period_size),
          !.b_rw = ((av.rt[s].rate * av.rt[s].sample_bits) \div 8)
                      \div TIMER_PER_SEC]
    /\ ret' = 0
    /\ UNCHANGED <<drvvars, av, patvars, cfgvars, tk>>

\* the timer expires; timer_timeout returns at once for a NULL substream
\* and else loads substream->runtime
GlobTickBegin ==
    /\ ~fault /\ av.pend /\ ~av.run /\ av.ticks < MaxTicks
    /\ av' = IF alsav.substream = -1 THEN [av EXCEPT !.pend = FALSE]
             ELSE [av EXCEPT !.pend = FALSE, !.run = TRUE,
                             !.sub = alsav.substream, !.ticks = @ + 1]
    /\ UNCHANGED <<drvvars, alsav, ret, patvars, cfgvars, tk>>

\* the rest of timer_timeout.  alsav->substream->stream is read again here
\* and may be that of the substream loaded at the start or of the one an
\* open has stored since.
GlobTickEnd(r, trap) ==
    /\ ~fault /\ av.run
    /\ \E sd \in {av.sub, alsav.substream} :
          LET m == glob_timer_body(alsav, av.rt[av.sub], TwoDir(sd), r)
          IN  IF (m.div0 \/ m.oob) /\ trap
              THEN /\ fault' = TRUE
                   /\ UNCHANGED <<alsav, av>>
              ELSE /\ (m.div0 \/ m.oob) \/ ~trap
                   /\ alsav' = m.a
                   /\ av' = [av EXCEPT !.run = FALSE, !.sub = -1, !.pend = TRUE,
                                       !.rt[av.sub].dma_area = m.area]
                   /\ UNCHANGED fault
    /\ UNCHANGED <<iter, isopen, stream, runtime, timer, playback_capture_test,
                   ioctl_reset_test, g, ret, patvars, cfgvars, tk>>

GlobCfgs == Cfgs({1}, {16}, {RW_INTERLEAVED}, {1})

InitGlob ==
    /\ InitDrv(Abacaba, FILL_MODE_PAT, FALSE, FALSE, FALSE)
    /\ alsav = GlobAlsav
    /\ av = GlobAv

NextGlob ==
    \/ \E s \in Substreams : GlobOpenReset(s)
    \/ \E s \in Substreams : GlobOpenTimer(s)
    \/ \E s \in Substreams, cfg \in GlobCfgs : GlobHwParams(s, cfg)
    \/ \E s \in Substreams : GlobTrigger(s)
    \/ GlobTickBegin
    \/ \E trap \in BOOLEAN : GlobTickEnd(0, trap)
    \/ \E s \in Substreams : GlobClose(s)

SpecGlob == InitGlob /\ [][NextGlob]_vars

\* C22 as stated: while an open of alsav.c stands between its assignments
\* and the start of the new timer, the previous timer is stopped: it is not
\* armed, no callback is executing, and the position state is as the open
\* has reset it.
C22_OpenStopsTimerFirst ==
    av.opener # -1
        => /\ ~av.pend /\ ~av.run
           /\ alsav.buf_pos = 0 /\ alsav.period_pos = 0
           /\ alsav.total_bytes = 0 /\ ~alsav.is_buf_corrupted

\* the offset the next verify scan reads first
ScanPos(s) ==
    IF iter[s].interleaved THEN iter[s].buf_pos
    ELSE CDiv(iter[s].buf_pos, runtime[s].channels)

\* C30: a tick of an uncorrupted playback session that finds a zero byte at
\* the position of its scan reads that one byte, does not set
\* is_buf_corrupted and advances by b_rw, in both layouts; and a playback
\* session into which nothing was written closes with
\* playback_capture_test = 1.
C30_ZeroByteEndsScan ==
    /\ [][(isopen[0] /\ stream[0] = PLAYBACK /\ ~iter[0].is_buf_corrupted
            /\ iter[0].b_rw > 0 /\ g'[0].ticks = g[0].ticks + 1
            /\ ScanPos(0) \in DOMAIN runtime[0].dma_area
            /\ runtime[0].dma_area[ScanPos(0)] = 0)
           => /\ timer_body(iter[0], runtime[0], PLAYBACK, 0)[1].rd = 1
              /\ ~iter'[0].is_buf_corrupted
              /\ runtime'[0] = runtime[0]
              /\ iter'[0].total_bytes = iter[0].total_bytes + iter[0].b_rw]_vars
    /\ [][(isopen[0] /\ stream[0] = PLAYBACK /\ g[0].frames = 0 /\ ~isopen'[0])
           => playback_capture_test' = 1]_vars

\* a playback session in channel blocks that has been scanned and into which
\* nothing was written
C30_Witness ==
    /\ isopen[0] /\ stream[0] = PLAYBACK /\ g[0].frames = 0
    /\ ~iter[0].interleaved /\ runtime[0].channels > 1
    /\ iter[0].total_bytes > 0 /\ ~iter[0].is_buf_corrupted

\* C31: a trigger that returns 0 leaves b_rw = rate * sample_bytes *
\* channels / TIMER_PER_SEC for the rate, sample width and channel count the
\* runtime holds at that moment, whatever b_rw was before.
C31_BytesPerTick ==
    [][((\E cmd \in TriggerCmds : Trigger(0, cmd)) /\ ret' = 0)
          => iter'[0].b_rw =
                (runtime[0].rate * (runtime[0].sample_bits \div 8)
                    * runtime[0].channels) \div TIMER_PER_SEC]_vars

\* a session triggered again after its second hw_params, at 11025 Hz, three
\* channels of two bytes
C31_Witness ==
    /\ isopen[0] /\ g[0].trig /\ g[0].nhw = 2
    /\ runtime[0].rate = 11025 /\ runtime[0].channels = 3
    /\ runtime[0].sample_bits = 16
    /\ iter[0].b_rw = 13230

\* C32 as stated: in every state in which the timer of an open session can
\* fire, the callback would execute no division or remainder by zero.
C32_NoZeroDivisor ==
    (isopen[0] /\ timer[0])
        => ~timer_body(iter[0], runtime[0], stream[0], 0)[1].div0

\* ---- random fill at the sizes the hardware descriptor permits ----

\* the smallest period, one period per buffer, the lowest and the highest rate
RandCfgs ==
    {[cfg EXCEPT !.access = a] :
        cfg \in {c \in HwCfgs :
                    /\ c.rate \in {8000, 48000}
                    /\ c.period_size = MinPeriodFrames(c.channels, c.sample_bits)},
        a \in Accesses}

InitRand == InitCfg(Abacaba, FILL_MODE_RAND, FALSE, FALSE, FALSE)

NextRand ==
    \/ Open(0, CAPTURE, TRUE)
    \/ \E cfg \in RandCfgs : g[0].nhw = 0 /\ HwParams(0, cfg)
    \/ Trigger(0, "SNDRV_PCM_TRIGGER_START")
    \/ \E trap \in BOOLEAN : Tick(0, 7, trap)
    \/ Close(0)

SpecRand == InitRand /\ [][NextRand]_vars

\* C33 as stated: no tick of a session accesses dma_area outside
\* [0, dma_bytes).
C33_TickStaysInBuffer ==
    isopen[0] => ~g[0].oob

\* bytes_to_frames(substream->runtime, v_iter->buf_pos)
snd_pcmtst_pcm_pointer(s) ==
    CDiv(iter[s].buf_pos * 8, runtime[s].channels * runtime[s].sample_bits)

\* C34: in a session whose buffer was set by one hw_params, in every state
\* buf_pos = total_bytes mod dma_bytes, and the pointer callback returns
\* that offset in frames.
C34_BufPosIsTotalModLen ==
    (isopen[0] /\ g[0].nhw = 1)
        => /\ iter[0].buf_pos = iter[0].total_bytes % runtime[0].dma_bytes
           /\ snd_pcmtst_pcm_pointer(0) =
                 ((iter[0].total_bytes % runtime[0].dma_bytes) * 8)
                     \div (runtime[0].channels * runtime[0].sample_bits)

\* a session whose ticks have gone round the buffer and stand inside it
C34_Witness ==
    /\ isopen[0] /\ g[0].nhw = 1
    /\ iter[0].total_bytes > runtime[0].dma_bytes /\ iter[0].buf_pos > 0

\* ---- pattern writes between the ticks of a session ----

\* <<*off, first byte, len>>: an empty write, a short one, one up to the last
\* byte of fill_pattern and one beyond its end
TickWriteCalls ==
    {<<0, 0, 0>>, <<0, 0, 3>>, <<MAX_PATTERN_LEN - 1, 0, 3>>,
     <<MAX_PATTERN_LEN + 5, 0, 2>>}

NextPatTick ==
    \/ \E dir \in {PLAYBACK, CAPTURE} : Open(0, dir, TRUE)
    \/ \E cfg \in Cfgs({2}, {8}, Accesses, {1}) :
          g[0].nhw = 0 /\ cfg.rate = TIMER_PER_SEC /\ HwParams(0, cfg)
    \/ Trigger(0, "SNDRV_PCM_TRIGGER_START")
    \/ \E trap \in BOOLEAN : Tick(0, 0, trap)
    \/ \E c \in TickWriteCalls :
          PatternWrite(c[1], c[2], c[3],
                       Max(0, pattern_write_to_write(c[1], c[3])))
    \/ Close(0)

SpecPatTick == InitWith(Abacaba) /\ [][NextPatTick]_vars

NextStop ==
    \/ \E dir \in {PLAYBACK, CAPTURE} : Open(0, dir, TRUE)
    \/ \E cfg \in Cfgs({2}, {8}, Accesses, {1}) :
          /\ g[0].nhw < 2 /\ cfg.rate = TIMER_PER_SEC * (2 - g[0].nhw)
          /\ HwParams(0, cfg)
    \/ g[0].nhw = 1 /\ Trigger(0, "SNDRV_PCM_TRIGGER_START")
    \/ g[0].nhw = 2 /\ Trigger(0, "SNDRV_PCM_TRIGGER_STOP")
    \/ \E trap \in BOOLEAN : Tick(0, 0, trap)
    \/ Close(0)

SpecStop == InitWith(Abacaba) /\ [][NextStop]_vars

\* C36: a trigger, whatever its command, returns 0, recomputes sample_bytes,
\* period_bytes, the layout and b_rw from the runtime and leaves the timer
\* as it is; the timer of an open session is armed in every state, and each
\* tick, also after a stop trigger, advances total_bytes by b_rw and leaves
\* the timer armed.
C36_TriggerIgnoresCommand ==
    /\ [](isopen[0] => timer[0])
    /\ [][\A cmd \in TriggerCmds :
            Trigger(0, cmd)
               => /\ ret' = 0
                  /\ timer' = timer
                  /\ iter'[0].sample_bytes = runtime[0].sample_bits \div 8
                  /\ iter'[0].period_bytes =
                        (runtime[0].period_size * runtime[0].channels
                            * runtime[0].sample_bits) \div 8
                  /\ iter'[0].interleaved = (runtime[0].access = RW_INTERLEAVED)
                  /\ iter'[0].b_rw =
                        (((runtime[0].rate * runtime[0].sample_bits) \div 8)
                            \div TIMER_PER_SEC) * runtime[0].channels]_vars
    /\ [][(isopen[0] /\ g'[0].ticks = g[0].ticks + 1)
            => /\ iter'[0].total_bytes = iter[0].total_bytes + iter[0].b_rw
               /\ timer'[0]]_vars

\* ticks of 4 bytes follow the start trigger and ticks of 2 bytes the stop
\* trigger: a total of 4 k + 2 bytes has a tick after the stop in it
C36_Witness ==
    /\ isopen[0] /\ g[0].nhw = 2 /\ iter[0].b_rw = 2
    /\ iter[0].total_bytes % 4 = 2

\* ---- a buffer filled by a capture session and verified by a playback
\* session ----
\* Substream 1 is a capture session in pattern mode, substream 0 a playback
\* session with the same hw_params.  Both tick only after their trigger; the
\* capture session ticks while its blocks fit into the buffer, then its
\* buffer is copied into that of the playback session, which ticks as often.

\* a program reads the captured buffer and writes it to the playback stream
Loopback ==
    /\ ~fault /\ isopen[0] /\ isopen[1] /\ g[0].trig /\ g[0].written = 0
    /\ g[1].ticks > 0
    /\ runtime' = [runtime EXCEPT ![0].dma_area = runtime[1].dma_area]
    /\ g' = [g EXCEPT ![0].written = g[1].adv]
    /\ UNCHANGED <<iter, isopen, stream, timer, fault, playback_capture_test,
                   ioctl_reset_test, ret, patvars, cfgvars, seqvars, tk>>

NextDual ==
    \/ Open(1, CAPTURE, TRUE)
    \/ \E cfg \in Cfgs(1 .. MAX_CHANNELS_NUM, {8, 16}, Accesses, {1}) :
          g[1].nhw = 0 /\ HwParams(1, cfg)
    \/ g[1].nhw = 1 /\ ~g[1].trig /\ Trigger(1, "SNDRV_PCM_TRIGGER_START")
    \/ /\ g[1].trig /\ ~isopen[0]
       /\ iter[1].total_bytes + iter[1].b_rw <= runtime[1].dma_bytes
       /\ Tick(1, 0, FALSE)
    \/ g[1].ticks > 0 /\ Open(0, PLAYBACK, TRUE)
    \/ \E cfg \in Cfgs(1 .. MAX_CHANNELS_NUM, {8, 16}, Accesses, {1}) :
          /\ g[0].nhw = 0 /\ isopen[1]
          /\ cfg.channels = runtime[1].channels
          /\ cfg.sample_bits = runtime[1].sample_bits
          /\ cfg.rate = runtime[1].rate /\ cfg.access = runtime[1].access
          /\ cfg.period_size = runtime[1].period_size
          /\ frames_to_bytes(runtime[1], cfg.buffer_size) = runtime[1].dma_bytes
          /\ HwParams(0, cfg)
    \/ g[0].nhw = 1 /\ ~g[0].trig /\ Trigger(0, "SNDRV_PCM_TRIGGER_START")
    \/ Loopback
    \/ g[0].written > 0 /\ g[0].ticks < g[1].ticks /\ Tick(0, 0, FALSE)

SpecDual == InitPlay /\ [][NextDual]_vars

\* C37: the playback session that scans the buffer which the capture
\* session has filled in pattern mode is never corrupted, and after as many
\* ticks as the capture session has made it stands at the same buf_pos and
\* total_bytes.
C37_FillVerifyDual ==
    (isopen[0] /\ isopen[1] /\ g[0].written > 0)
        => /\ ~iter[0].is_buf_corrupted
           /\ g[0].ticks = g[1].ticks
                 => /\ iter[0].buf_pos = iter[1].buf_pos
                    /\ iter[0].total_bytes = iter[1].total_bytes

\* four channels of two bytes in channel blocks, filled and scanned by two
\* ticks each
C37_Witness ==
    /\ isopen[0] /\ isopen[1] /\ g[0].written > 0
    /\ g[0].ticks = 2 /\ g[1].ticks = 2
    /\ runtime[0].channels = MAX_CHANNELS_NUM /\ runtime[0].sample_bits = 16
    /\ ~iter[0].interleaved /\ iter[0].total_bytes = runtime[0].dma_bytes

\* C38: an open that returns -ENOMEM creates no session, arms no timer and
\* leaves playback_capture_test and ioctl_reset_test as they were.
C38_FailedOpenChangesNothing ==
    [][\A dir \in {PLAYBACK, CAPTURE} :
          Open(0, dir, FALSE)
              => /\ ret' = -ENOMEM
                 /\ isopen' = isopen /\ timer' = timer
                 /\ iter' = iter /\ runtime' = runtime
                 /\ playback_capture_test' = playback_capture_test
                 /\ ioctl_reset_test' = ioctl_reset_test]_vars

\* the open has failed after a session that has passed and has set the
\* reset byte
C38_Witness ==
    /\ ret = -ENOMEM /\ ~isopen[0] /\ ~timer[0]
    /\ playback_capture_test = 1 /\ ioctl_reset_test = 1

\* ---- the timer under fair scheduling ----
\* A pending timer expires: the timer core runs timer_timeout of every armed
\* timer after its interval, whatever inject_delay adds to it.  The callback
\* is therefore weakly fair.  Tick is enabled while the timer is armed and
\* the session has ticks left within MaxIdleTicks and MaxTicks.
NextLive ==
    \/ \E dir \in {PLAYBACK, CAPTURE} : Open(0, dir, TRUE)
    \/ \E cfg \in Cfgs({1}, {8}, {RW_INTERLEAVED}, {1, 2}) : g[0].nhw = 0 /\ HwParams(0, cfg)
    \/ ~g[0].trig /\ Trigger(0, "SNDRV_PCM_TRIGGER_START")
    \/ \E trap \in BOOLEAN : Tick(0, 0, trap)
    \/ Close(0)

SpecLive ==
    /\ InitWith(Abacaba) /\ [][NextLive]_vars
    /\ WF_vars(\E trap \in BOOLEAN : Tick(0, 0, trap))

\* ticks the session has left
TicksLeft(s) ==
    IF iter[s].b_rw = 0 THEN MaxIdleTicks - g[s].idle
    ELSE MaxTicks - (g[s].ticks - g[s].idle)

\* ticks until the period position reaches period_bytes
TicksToPeriod(s) ==
    (iter[s].period_bytes - iter[s].period_pos + iter[s].b_rw - 1)
        \div iter[s].b_rw

\* C39: while the session is open the timer stays armed; a callback that
\* reaches the end of a period notifies; the callbacks of an open session
\* go on until its ticks are used up; and once b_rw > 0 and
\* period_bytes > 0 they go on until no notification is left within them.
C39_TicksForever ==
    /\ [](isopen[0] => timer[0])
    /\ [][(\E trap \in BOOLEAN : Tick(0, 0, trap)) /\ ~fault'
             => /\ g'[0].ticks = g[0].ticks + 1
                /\ iter[0].period_pos + iter[0].b_rw >= iter[0].period_bytes
                      => g'[0].elapsed = g[0].elapsed + 1]_vars
    /\ []<>(~isopen[0] \/ TicksLeft(0) = 0)
    /\ []<>(\/ ~isopen[0] \/ iter[0].b_rw = 0 \/ iter[0].period_bytes = 0
            \/ TicksLeft(0) < TicksToPeriod(0))

\* C25 as stated: in every state of an open session period_pos is below
\* period_bytes.
C25_PeriodPosBelowPeriod ==
    isopen[0] => iter[0].period_pos < iter[0].period_bytes

\* C26 as stated: when every tick of the session has run with the same
\* b_rw > 0 and period_bytes > 0, the number of snd_pcm_period_elapsed
\* calls is the number of period boundaries crossed:
\* floor(ticks * b_rw / period_bytes).
C26_OneNotificationPerBoundary ==
    (isopen[0] /\ g[0].ticks > 0 /\ g[0].idle = 0 /\ g[0].nhw = 1
        /\ iter[0].period_bytes > 0)
        => g[0].elapsed = (g[0].ticks * iter[0].b_rw) \div iter[0].period_bytes

\* C28 as stated: after every trigger and every prepare that returned 0,
\* period_pos = 0.
C28_PeriodPosResetOnTrigger ==
    [][(((\E cmd \in TriggerCmds : Trigger(0, cmd)) \/ Prepare(0)) /\ ret' = 0)
          => iter'[0].period_pos = 0]_vars

\* C1 as stated: after Open and any sequence of ticks the kernel is alive,
\* buf_pos is in [0, dma_bytes) and total_bytes is the sum of the advances
\* since Open.
C1_TicksKeepPosition ==
    /\ ~fault
    /\ (isopen[0] /\ g[0].ticks > 0)
          => /\ iter[0].buf_pos < runtime[0].dma_bytes
             /\ iter[0].total_bytes = g[0].adv

\* C4: once is_buf_corrupted is set, every step of the open session (tick,
\* trigger, prepare, hw_params, ioctl, write) leaves it set, and the close
\* of the session publishes playback_capture_test = 0.
C4_CorruptionSticky ==
    [][(isopen[0] /\ iter[0].is_buf_corrupted)
          => IF isopen'[0] THEN iter'[0].is_buf_corrupted
             ELSE playback_capture_test' = 0]_vars

\* a session was closed with verdict 0 after a hw_params, a tick, a trigger,
\* a prepare and a reset had run on it with is_buf_corrupted set
C4_Witness ==
    /\ g[0].phase = "closed" /\ stream[0] = PLAYBACK
    /\ g[0].post = Len(PostOps)
    /\ playback_capture_test = 0

==========================================================================
